---- MODULE Spec2Model ----
(***************************************************************************)
(* Model of the secure query construction core of the inventory CLI:       *)
(* QueryBuilder (security.py), InventoryOperations (operations.py) and the *)
(* DatabaseManager.execute_query boundary (database.py).                   *)
(*                                                                         *)
(* A state is the outcome of the last call made by the CLI: the call and   *)
(* its arguments, what the call produced, and the statements it handed to  *)
(* the query executor.  Every action is one whole call.                    *)
(***************************************************************************)
EXTENDS Integers, Sequences, FiniteSets, TLC

VARIABLES
    VALID_IDENTIFIERS,  \* QueryBuilder.VALID_IDENTIFIERS: table -> list of columns
    call,               \* the last call: its name and its arguments
    result,             \* what the call produced (return value, error, message)
    executed,           \* the statements the call handed to execute_query, in order
    session,            \* the CLI session: current_user and the manager's connection
    pinger              \* the pinger process: its environment, position and connections

vars == <<VALID_IDENTIFIERS, call, result, executed, session, pinger>>

(***************************************************************************)
(* Bounds of the explored inputs.                                          *)
(***************************************************************************)
MaxFilters == 2     \* longest generic filter / WHERE list
MaxIn == 2          \* longest generic IN value list
MaxSet == 2         \* longest SET list / record (number of keys)
MaxRows == 2        \* most rows of a multi-row insert
MaxChain == 2       \* most tables of a related-record insertion

(***************************************************************************)
(* Python values.  A value carries its dynamic type: sanitize_value and    *)
(* len() inspect it.  A str is the sequence of its characters.             *)
(***************************************************************************)
IntV(n) == [t |-> "int", i |-> n, s |-> <<>>, items |-> <<>>]
StrV(cs) == [t |-> "str", i |-> 0, s |-> cs, items |-> <<>>]
ListV(xs) == [t |-> "list", i |-> 0, s |-> <<>>, items |-> xs]
NoneV == [t |-> "none", i |-> 0, s |-> <<>>, items |-> <<>>]

Range(f) == {f[x] : x \in DOMAIN f}

RECURSIVE SeqsUpTo(_, _)
\* all sequences over S of length 0..n
SeqsUpTo(S, n) ==
    IF n = 0 THEN {<<>>}
    ELSE LET shorter == SeqsUpTo(S, n - 1)
         IN  shorter \cup {Append(q, x) : q \in {r \in shorter : Len(r) = n - 1}, x \in S}

RECURSIVE Flatten(_)
\* concatenation of a sequence of sequences
Flatten(ss) == IF ss = <<>> THEN <<>> ELSE Head(ss) \o Flatten(Tail(ss))

\* len(x): defined for list and str, TypeError (-1) for anything else
PyLen(v) ==
    CASE v.t = "list" -> Len(v.items)
      [] v.t = "str" -> Len(v.s)
      [] OTHER -> -1

\* the elements `for x in v` yields: of a list its items, of a str its
\* one-character strings
PyIter(v) ==
    CASE v.t = "list" -> v.items
      [] v.t = "str" -> [k \in 1..Len(v.s) |-> StrV(<<v.s[k]>>)]
      [] OTHER -> <<>>

\* str.upper() on the operator strings the model feeds in: symbols and
\* upper-case words are unchanged
upper(s) ==
    CASE s = "in" -> "IN"
      [] s = "In" -> "IN"
      [] OTHER -> s

(***************************************************************************)
(* security.py: the identifier registry and its validator.                 *)
(***************************************************************************)
Registry ==
    [categories |-> <<"category_id", "category_name", "description", "created_at">>,
     suppliers |-> <<"supplier_id", "supplier_name", "contact_person", "email",
                     "phone", "address", "created_at">>,
     products |-> <<"product_id", "product_name", "category_id", "supplier_id",
                    "price", "cost", "quantity", "sku", "description",
                    "created_at", "updated_at">>,
     inventory_transactions |-> <<"transaction_id", "product_id", "transaction_type",
                                  "quantity_change", "previous_quantity", "new_quantity",
                                  "reference", "notes", "created_at", "created_by">>]

\* An optional column argument: <<>> is None (the default), <<c>> is the string c.
NoColumn == <<>>
Col(c) == <<c>>

\* Python truthiness of the optional column: None and '' are falsy
Truthy(column) == column # <<>> /\ column[1] # ""

validate_identifier(table, column) ==
    IF table \notin DOMAIN VALID_IDENTIFIERS THEN FALSE
    ELSE IF Truthy(column) /\ column[1] \notin Range(VALID_IDENTIFIERS[table]) THEN FALSE
    ELSE TRUE

(***************************************************************************)
(* psycopg2.sql composables.  A Composed is the flat sequence of its       *)
(* parts, in the order as_string renders them.                             *)
(***************************************************************************)
SQL(s) == [k |-> "SQL", s |-> s]
Identifier(n) == [k |-> "Identifier", s |-> n]
Placeholder == [k |-> "Placeholder", s |-> ""]

RECURSIVE Join(_, _)
\* sql.SQL(sep).join(parts): the parts (each a Composed) separated by SQL(sep)
Join(sep, parts) ==
    IF parts = <<>> THEN <<>>
    ELSE IF Len(parts) = 1 THEN Head(parts)
    ELSE Head(parts) \o <<SQL(sep)>> \o Join(sep, Tail(parts))

\* [sql.Placeholder()] * n
Placeholders(n) == [k \in 1..n |-> <<Placeholder>>]

RECURSIVE as_string(_)
\* Composed.as_string: SQL verbatim, Identifier double-quoted, Placeholder %s
as_string(q) ==
    IF q = <<>> THEN ""
    ELSE LET h == Head(q)
             piece == CASE h.k = "SQL" -> h.s
                        [] h.k = "Identifier" -> "\"" \o h.s \o "\""
                        [] OTHER -> "%s"
         IN  piece \o as_string(Tail(q))

(***************************************************************************)
(* security.py: the statement builders.  A builder returns                 *)
(* [ok |-> TRUE, query |-> Composed] or raises: [ok |-> FALSE, err |-> e]. *)
(***************************************************************************)
Returned(q) == [ok |-> TRUE, err |-> "", query |-> q]
Raised(e) == [ok |-> FALSE, err |-> e, query |-> <<>>]

InvalidTable == "ValueError: Invalid table name"
InvalidColumn == "ValueError: Invalid column name"
LenTypeError == "TypeError: object has no len()"

\* one condition (col, op, val) of a filter / WHERE list
CondCol(c) == c[1]
CondOp(c) == c[2]
CondVal(c) == c[3]
IsIn(c) == upper(CondOp(c)) = "IN"

\* the error the loop body raises for condition c, "" when it raises none
CondError(table, c) ==
    IF ~validate_identifier(table, Col(CondCol(c))) THEN InvalidColumn
    ELSE IF IsIn(c) /\ PyLen(CondVal(c)) < 0 THEN LenTypeError
    ELSE ""

\* a variant that writes one placeholder for an IN list whatever its length
SingleInPlaceholderPart(c) ==
    IF IsIn(c)
    THEN <<Identifier(CondCol(c)), SQL(" IN (")>>
         \o <<Placeholder>> \o <<SQL(")")>>
    ELSE <<Identifier(CondCol(c)), SQL(" "), SQL(CondOp(c)), SQL(" "), Placeholder>>

\* the Composed appended for condition c
ConditionPart(c) ==
    IF IsIn(c)
    THEN <<Identifier(CondCol(c)), SQL(" IN (")>>
         \o Join(", ", Placeholders(PyLen(CondVal(c)))) \o <<SQL(")")>>
    ELSE <<Identifier(CondCol(c)), SQL(" "), SQL(CondOp(c)), SQL(" "), Placeholder>>

\* the first error raised while looping over the conditions, "" when none
FirstCondError(table, conds) ==
    IF \E k \in 1..Len(conds) : CondError(table, conds[k]) # ""
    THEN LET k == CHOOSE j \in 1..Len(conds) :
                    /\ CondError(table, conds[j]) # ""
                    /\ \A m \in 1..(j - 1) : CondError(table, conds[m]) = ""
         IN  CondError(table, conds[k])
    ELSE ""

\* a variant that joins the conditions with OR
OrJoinedSelectQuery(table, filters) ==
    IF ~validate_identifier(table, NoColumn) THEN Raised(InvalidTable)
    ELSE LET query == <<SQL("SELECT * FROM "), Identifier(table)>>
             fs == IF filters = <<>> THEN <<>> ELSE filters[1]
         IN  IF fs = <<>> THEN Returned(query)
             ELSE IF FirstCondError(table, fs) # "" THEN Raised(FirstCondError(table, fs))
             ELSE Returned(query \o <<SQL(" WHERE ")>>
                           \o Join(" OR ", [k \in 1..Len(fs) |-> ConditionPart(fs[k])]))

\* filters is <<>> for None (the default) or <<list>> for a list
build_select_query(table, filters) ==
    IF ~validate_identifier(table, NoColumn) THEN Raised(InvalidTable)
    ELSE LET query == <<SQL("SELECT * FROM "), Identifier(table)>>
             fs == IF filters = <<>> THEN <<>> ELSE filters[1]
         IN  IF fs = <<>> THEN Returned(query)
             ELSE IF FirstCondError(table, fs) # "" THEN Raised(FirstCondError(table, fs))
             ELSE Returned(query \o <<SQL(" WHERE ")>>
                           \o Join(" AND ", [k \in 1..Len(fs) |-> ConditionPart(fs[k])]))

\* set_clauses: list of (col, val); where_clauses: list of (col, op, val)
FirstSetError(table, set_clauses) ==
    IF \E k \in 1..Len(set_clauses) : ~validate_identifier(table, Col(set_clauses[k][1]))
    THEN InvalidColumn
    ELSE ""

SetPart(a) == <<Identifier(a[1]), SQL(" = "), Placeholder>>

build_update_query(table, set_clauses, where_clauses) ==
    IF ~validate_identifier(table, NoColumn) THEN Raised(InvalidTable)
    ELSE IF FirstSetError(table, set_clauses) # "" THEN Raised(InvalidColumn)
    ELSE IF FirstCondError(table, where_clauses) # ""
    THEN Raised(FirstCondError(table, where_clauses))
    ELSE Returned(<<SQL("UPDATE "), Identifier(table), SQL(" SET ")>>
                  \o Join(", ", [k \in 1..Len(set_clauses) |-> SetPart(set_clauses[k])])
                  \o <<SQL(" WHERE ")>>
                  \o Join(" AND ", [k \in 1..Len(where_clauses) |->
                                        ConditionPart(where_clauses[k])]))

\* "(%s, ..., %s)" for one row of values
RowPart(values) == <<SQL("(")>> \o Join(", ", Placeholders(Len(values))) \o <<SQL(")")>>

\* a variant that writes the column list back to front
Reversed(q) == [k \in 1..Len(q) |-> q[Len(q) + 1 - k]]
UnorderedColumnsInsertQuery(table, columns, values_list) ==
    IF ~validate_identifier(table, NoColumn) THEN Raised(InvalidTable)
    ELSE IF \E k \in 1..Len(columns) : ~validate_identifier(table, Col(columns[k]))
    THEN Raised(InvalidColumn)
    ELSE Returned(<<SQL("INSERT INTO "), Identifier(table), SQL(" (")>>
                  \o Join(", ", [k \in 1..Len(columns) |-> <<Identifier(Reversed(columns)[k])>>])
                  \o <<SQL(") VALUES ")>>
                  \o Join(", ", [k \in 1..Len(values_list) |-> RowPart(values_list[k])])
                  \o <<SQL(" RETURNING *")>>)

\* columns: list of str; values_list: list of lists of values
build_insert_query(table, columns, values_list) ==
    IF ~validate_identifier(table, NoColumn) THEN Raised(InvalidTable)
    ELSE IF \E k \in 1..Len(columns) : ~validate_identifier(table, Col(columns[k]))
    THEN Raised(InvalidColumn)
    ELSE Returned(<<SQL("INSERT INTO "), Identifier(table), SQL(" (")>>
                  \o Join(", ", [k \in 1..Len(columns) |-> <<Identifier(columns[k])>>])
                  \o <<SQL(") VALUES ")>>
                  \o Join(", ", [k \in 1..Len(values_list) |-> RowPart(values_list[k])])
                  \o <<SQL(" RETURNING *")>>)

DangerousChars == {";", "'", "\"", "\\"}
KeptChar(c) == c \notin DangerousChars

\* a variant whose character class lacks the backslash
SanitizeKeepingBackslash(value) ==
    IF value.t = "str"
    THEN StrV(SelectSeq(value.s, LAMBDA c : c \notin {";", "'", "\""}))
    ELSE value

\* re.sub(r'[;\'"\\]', '', value) for a str, any other value unchanged
sanitize_value(value) ==
    IF value.t = "str" THEN StrV(SelectSeq(value.s, KeptChar)) ELSE value

SanitizeAll(values) == [k \in 1..Len(values) |-> sanitize_value(values[k])]

(***************************************************************************)
(* database.py: execute_query.  The driver either runs the statement or    *)
(* raises; rows are fetched only for a text that starts with SELECT, SHOW  *)
(* or DESC, anything else is committed and None is returned.               *)
(***************************************************************************)
DriverOutcomes == {"ok", "error"}

\* one statement handed to execute_query: the Composed, the text
\* query.as_string(cursor) made of it, and the parameter tuple
Submitted(q, params) == [query |-> q, text |-> as_string(q), params |-> params]

\* query.strip().upper().startswith(('SELECT', 'SHOW', 'DESC')) for the
\* statements the builders make, which all begin with a literal keyword
StartsWithRead(q) ==
    /\ q # <<>>
    /\ Head(q).k = "SQL"
    /\ \E kw \in {"SELECT", "SHOW", "DESC"}, rest \in {" * FROM ", " ", " INTO "} :
           kw \o rest = Head(q).s

\* the value execute_query returns: "rows" (a list of dicts) or "None"
execute_query(q, params, outcome) ==
    IF outcome = "ok" /\ StartsWithRead(q) THEN "rows" ELSE "None"

\* cursor.rowcount after execute_query: the number of rows an executed
\* write touched, and -1 when the statement raised
RowCounts(outcome) == IF outcome = "ok" THEN {0, 1} ELSE {-1}

(***************************************************************************)
(* operations.py: InventoryOperations.  An operation yields what it        *)
(* reported and the statements it handed to execute_query.                 *)
(*   status: "rejected"  - refused by the operation's own checks           *)
(*           "exception" - an exception reached the except clause          *)
(*           "completed" - the statement was built and submitted           *)
(***************************************************************************)
\* a variant in which the operation hands its statements over twice
ResubmittingOutcome(status, msg, ret, stmts) ==
    [kind |-> "op", status |-> status, msg |-> msg, ret |-> ret,
     executed |-> stmts \o stmts]

Outcome(status, msg, ret, stmts) ==
    [kind |-> "op", status |-> status, msg |-> msg, ret |-> ret, executed |-> stmts]

Rejected(msg) == Outcome("rejected", msg, "None", <<>>)
Excepted(msg) == Outcome("exception", msg, "None", <<>>)

\* string helpers over the names the model uses
NamePrefixes ==
    {"categorie", "supplier", "product", "inventory_transaction", "user",
     "category", "transaction", "price", "description", ""}
LastChars == {"s", "e", "n", "d"}
EndsWith(s, suffix) == \E p \in NamePrefixes : p \o suffix = s
\* s[:-1]
DropLast(s) == CHOOSE p \in NamePrefixes : \E c \in LastChars : p \o c = s

\* a dict is the sequence of its (key, value) items in insertion order
Keys(d) == [k \in 1..Len(d) |-> d[k][1]]
Values(d) == [k \in 1..Len(d) |-> d[k][2]]
HasKey(d, key) == \E k \in 1..Len(d) : d[k][1] = key

\* a variant that binds the value list of an IN condition as one parameter
WholeListCondParams(c) == <<sanitize_value(CondVal(c))>>

\* the parameters the operations bind for one condition
CondParams(c) ==
    IF IsIn(c) THEN SanitizeAll(PyIter(CondVal(c))) ELSE <<sanitize_value(CondVal(c))>>

FilterParams(filters) == Flatten([k \in 1..Len(filters) |-> CondParams(filters[k])])

display_table(table_name, outcome) ==
    LET b == build_select_query(table_name, <<>>)
    IN  IF ~b.ok THEN Excepted("Error displaying table")
        ELSE Outcome("completed", "table", execute_query(b.query, <<>>, outcome),
                     <<Submitted(b.query, <<>>)>>)

filter_single_value(table_name, column_name, value, outcome) ==
    IF ~validate_identifier(table_name, Col(column_name)) THEN Rejected("Error: Invalid column")
    ELSE LET b == build_select_query(table_name, <<<<<<column_name, "=", value>>>>>>)
             params == <<sanitize_value(value)>>
         IN  IF ~b.ok THEN Excepted("Error filtering data")
             ELSE Outcome("completed", "results", execute_query(b.query, params, outcome),
                          <<Submitted(b.query, params)>>)

filter_multiple_values(table_name, filters, outcome) ==
    IF \E k \in 1..Len(filters) : ~validate_identifier(table_name, Col(CondCol(filters[k])))
    THEN Rejected("Error: Invalid column")
    ELSE LET b == build_select_query(table_name, <<filters>>)
             params == FilterParams(filters)
         IN  IF ~b.ok THEN Excepted("Error filtering data")
             ELSE Outcome("completed", "results", execute_query(b.query, params, outcome),
                          <<Submitted(b.query, params)>>)

\* a variant that binds the WHERE values before the SET values
WhereThenSet(set_params, where_params) == where_params \o set_params

\* the parameter list of an UPDATE: SET values first, then WHERE values
UpdateParams(set_params, where_params) == set_params \o where_params

update_single_record(table_name, record_id, updates, outcome, rowcount) ==
    IF HasKey(updates, "id") \/ HasKey(updates, DropLast(table_name) \o "_id")
    THEN Rejected("Error: Cannot update ID columns")
    ELSE IF \E k \in 1..Len(updates) : ~validate_identifier(table_name, Col(updates[k][1]))
    THEN Rejected("Error: Invalid column")
    ELSE LET set_clauses == updates
             id_column == IF EndsWith(table_name, "s")
                          THEN DropLast(table_name) \o "_id"
                          ELSE table_name \o "_id"
             where_clauses == <<<<id_column, "=", record_id>>>>
             b == build_update_query(table_name, set_clauses, where_clauses)
             params == UpdateParams(SanitizeAll(Values(updates)),
                                    <<sanitize_value(record_id)>>)
         IN  IF ~b.ok THEN Excepted("Error updating record")
             ELSE Outcome("completed",
                          IF rowcount > 0 THEN "Successfully updated"
                          ELSE "No record found",
                          execute_query(b.query, params, outcome),
                          <<Submitted(b.query, params)>>)

update_multiple_records(table_name, filter_column, filter_values, update_column, new_value, outcome) ==
    IF ~validate_identifier(table_name, Col(filter_column))
    THEN Rejected("Error: Invalid filter column")
    ELSE IF ~validate_identifier(table_name, Col(update_column))
    THEN Rejected("Error: Invalid update column")
    ELSE IF EndsWith(update_column, "_id")
    THEN Rejected("Error: Cannot update ID columns")
    ELSE LET set_clauses == <<<<update_column, new_value>>>>
             where_clauses == <<<<filter_column, "IN", filter_values>>>>
             b == build_update_query(table_name, set_clauses, where_clauses)
             params == UpdateParams(<<sanitize_value(new_value)>>,
                                    SanitizeAll(PyIter(filter_values)))
         IN  IF ~b.ok THEN Excepted("Error updating records")
             ELSE Outcome("completed", "Successfully updated",
                          execute_query(b.query, params, outcome),
                          <<Submitted(b.query, params)>>)

insert_single_record(table_name, data, outcome) ==
    LET columns == Keys(data)
        values == Values(data)
    IN  IF \E k \in 1..Len(columns) : ~validate_identifier(table_name, Col(columns[k]))
        THEN Rejected("Error: Invalid column")
        ELSE LET b == build_insert_query(table_name, columns, <<values>>)
                 sanitized_values == SanitizeAll(values)
             IN  IF ~b.ok THEN Excepted("Error inserting record")
                 ELSE LET r == execute_query(b.query, sanitized_values, outcome)
                      IN  Outcome("completed",
                                  IF r = "rows" THEN "Successfully inserted" ELSE "",
                                  IF r = "rows" THEN "row" ELSE "None",
                                  <<Submitted(b.query, sanitized_values)>>)

\* a variant that compares only the number of keys
SameKeyCount(record, columns) == Len(record) = Len(columns)

\* set(record.keys()) != set(columns) does not hold
SameKeys(record, columns) == Range(Keys(record)) = Range(columns)

insert_multiple_records(table_name, records, outcome) ==
    IF records = <<>> THEN Rejected("No records to insert")
    ELSE LET columns == Keys(records[1])
         IN  IF \E k \in 1..Len(records) : ~SameKeys(records[k], columns)
             THEN Rejected("Error: All records must have the same columns")
             ELSE IF \E k \in 1..Len(columns) :
                         ~validate_identifier(table_name, Col(columns[k]))
             THEN Rejected("Error: Invalid column")
             ELSE LET values_list == [k \in 1..Len(records) |-> Values(records[k])]
                      b == build_insert_query(table_name, columns, values_list)
                      flat_values == Flatten([k \in 1..Len(values_list) |->
                                                  SanitizeAll(values_list[k])])
                  IN  IF ~b.ok THEN Excepted("Error inserting multiple records")
                      ELSE Outcome("completed", "Successfully inserted",
                                   execute_query(b.query, flat_values, outcome),
                                   <<Submitted(b.query, flat_values)>>)

\* data[key]
DictGet(d, key) == d[CHOOSE k \in 1..Len(d) : d[k][1] = key][2]

\* the identifier the database generates for the i-th row of a call
GeneratedId(i) == IntV(100 + i)

\* the row RETURNING * yields for the i-th insert: the bound values, the
\* generated primary key (the first column), NULL for any other column
RowColumns(table_name) == VALID_IDENTIFIERS[table_name]
RowValue(table_name, data, key, i) ==
    IF HasKey(data, key) THEN sanitize_value(DictGet(data, key))
    ELSE IF key = RowColumns(table_name)[1] THEN GeneratedId(i)
    ELSE NoneV

RelatedOutcome(status, msg, ret, inserted_ids, stmts) ==
    [kind |-> "op", status |-> status, msg |-> msg, ret |-> ret,
     inserted_ids |-> inserted_ids, executed |-> stmts]

\* col.endswith('_id') and col == f"{prev_table[:-1]}_id"
NamesPrevious(col, prev_table) ==
    EndsWith(col, "_id") /\ col = DropLast(prev_table) \o "_id"

RECURSIVE RelatedFrom(_, _, _, _, _)
\* the loop of insert_related_records from its i-th entry on (counting from
\* one), with the identifiers captured and the statements executed so far
RelatedFrom(tables_data, outcomes, i, inserted_ids, stmts) ==
    IF i > Len(tables_data)
    THEN RelatedOutcome("completed", "Successfully inserted related records",
                        "list", inserted_ids, stmts)
    ELSE
    LET table_name == tables_data[i][1]
        data == tables_data[i][2]
        id_column == tables_data[i][3]
        Linked(col) == i > 1 /\ id_column # ""
                       /\ NamesPrevious(col, tables_data[i - 1][1])
        IndexError == inserted_ids = <<>> /\ \E k \in 1..Len(data) : Linked(data[k][1])
        linked_data == [k \in 1..Len(data) |->
                           IF Linked(data[k][1])
                           THEN <<data[k][1], inserted_ids[Len(inserted_ids)]>>
                           ELSE data[k]]
        r == insert_single_record(table_name, linked_data, outcomes[i])
        id_keys == {k \in 1..Len(RowColumns(table_name)) :
                       EndsWith(RowColumns(table_name)[k], "_id")}
        first_id_key == RowColumns(table_name)[CHOOSE k \in id_keys :
                                                  \A m \in id_keys : k <= m]
        Failed == RelatedOutcome("exception", "Error inserting related records",
                                 "None", <<>>, stmts)
    IN  IF IndexError THEN Failed
        ELSE IF r.ret # "row"
        THEN RelatedFrom(tables_data, outcomes, i + 1, inserted_ids, stmts \o r.executed)
        ELSE IF id_column # "" /\ id_column \notin Range(RowColumns(table_name))
        THEN RelatedOutcome("exception", "Error inserting related records",
                            "None", <<>>, stmts \o r.executed)
        ELSE IF id_column # ""
        THEN RelatedFrom(tables_data, outcomes, i + 1,
                         Append(inserted_ids,
                                RowValue(table_name, linked_data, id_column, i)),
                         stmts \o r.executed)
        ELSE IF id_keys = {}
        THEN RelatedFrom(tables_data, outcomes, i + 1, inserted_ids, stmts \o r.executed)
        ELSE RelatedFrom(tables_data, outcomes, i + 1,
                         Append(inserted_ids,
                                RowValue(table_name, linked_data, first_id_key, i)),
                         stmts \o r.executed)

\* a variant that, once an insert has failed, deletes from the first table
CompensatingRelatedRecords(tables_data, outcomes) ==
    LET o == RelatedFrom(tables_data, outcomes, 1, <<>>, <<>>)
        undo == Submitted(<<SQL("DELETE FROM "), Identifier(tables_data[1][1])>>, <<>>)
    IN  IF \E k \in 1..Len(outcomes) : outcomes[k] = "error"
        THEN [o EXCEPT !.executed = @ \o <<undo>>]
        ELSE o

\* tables_data is a list of (table_name, data, id_column); outcomes[i] is
\* what the driver does with the i-th insert if it is submitted
insert_related_records(tables_data, outcomes) ==
    RelatedFrom(tables_data, outcomes, 1, <<>>, <<>>)

(***************************************************************************)
(* Inputs.                                                                 *)
(***************************************************************************)
TableInputs == DOMAIN Registry \cup {"users"}

ScalarInputs == {IntV(10), StrV(<<"a", "'">>)}
InElemInputs == {IntV(1), StrV(<<";", "b">>)}
InListInputs == {ListV(xs) : xs \in SeqsUpTo(InElemInputs, MaxIn)}

CondColInputs == {"price", "category_id", ""}

\* operator and value of a condition: comparison operators (one of them,
\* <>, outside the documented set) with scalars, IN in two letter cases
\* with lists, and IN with a value that is no list
OpValInputs ==
    ({"=", ">", "<>"} \X ScalarInputs)
    \cup ({"IN", "in"} \X InListInputs)
    \cup ({"IN"} \X ScalarInputs)

CondInputs == {<<c, ov[1], ov[2]>> : c \in CondColInputs, ov \in OpValInputs}

\* conditions combined into longer lists
CoreCondInputs ==
    {<<"price", ">", IntV(10)>>,
     <<"category_id", "IN", ListV(<<IntV(1), StrV(<<";", "b">>)>>)>>,
     <<"category_id", "=", StrV(<<"a", "'">>)>>,
     <<"price", "<>", IntV(10)>>,
     <<"", "=", IntV(10)>>}

\* the conditions of the documented round trip
ExampleFilters ==
    <<<<"price", ">", IntV(10)>>,
      <<"category_id", "IN", ListV(<<IntV(1), IntV(2), IntV(3)>>)>>>>

FilterInputs ==
    {<<c>> : c \in CondInputs}
    \cup SeqsUpTo(CoreCondInputs, MaxFilters)
    \cup {ExampleFilters}

\* dicts (sequences of items with distinct keys) of at most n items
Dicts(Items, n) ==
    {d \in SeqsUpTo(Items, n) :
        \A j, k \in 1..Len(d) : j # k => d[j][1] # d[k][1]}

UpdateItemInputs ==
    {<<"price", IntV(10)>>, <<"price", StrV(<<"a", "'">>)>>,
     <<"description", StrV(<<";", "b">>)>>,
     <<"product_id", IntV(10)>>, <<"category_id", IntV(10)>>}

SetClauseInputs == Dicts(UpdateItemInputs, MaxSet)

WhereCondInputs ==
    {<<"product_id", "=", IntV(7)>>,
     <<"category_id", "IN", ListV(<<StrV(<<";", "b">>), IntV(1)>>)>>,
     <<"category_id", "in", ListV(<<>>)>>,
     <<"price", "<>", StrV(<<"a", "'">>)>>}

WhereInputs == SeqsUpTo(WhereCondInputs, MaxFilters)

RecordIdInputs == {IntV(7), StrV(<<"7", "'">>)}

InsertItemInputs ==
    {<<"category_name", StrV(<<"a", "'">>)>>, <<"category_name", IntV(10)>>,
     <<"description", StrV(<<";", "b">>)>>, <<"description", IntV(10)>>,
     <<"price", IntV(10)>>}

RowItemInputs ==
    {<<"category_name", StrV(<<"a", "'">>)>>,
     <<"description", IntV(10)>>, <<"description", StrV(<<";", "b">>)>>,
     <<"price", IntV(10)>>}

RowInputs == Dicts(RowItemInputs, MaxSet)

\* the call of the documented INSERT example
ExampleInsertData ==
    <<<<"category_name", StrV(<<"T", "o", "y", "s">>)>>,
      <<"description", StrV(<<"K", "i", "d", "s">>)>>>>

\* the values handed to sanitize_value alone: the documented string and
\* integer, one string per removed character, a string without any, a list
OBrienDrop == StrV(<<"O", "'", "B", "r", "i", "e", "n", ";", "D", "R", "O", "P">>)

SanitizeInputs ==
    ScalarInputs \cup InElemInputs
    \cup {OBrienDrop, IntV(42), StrV(<<>>), StrV(<<"a", "b">>),
          StrV(<<"a", "\\", "b">>), StrV(<<"\"", "a", "\"">>),
          StrV(<<";", "'", "\"", "\\">>),
          ListV(<<StrV(<<";", "b">>)>>)}

\* statements handed to execute_query alone, one of each kind the
\* builders make, with the parameters their placeholders take
StatementInputs ==
    {<<build_select_query("products", <<>>).query, <<>>>>,
     <<build_select_query("products", <<<<<<"price", ">", IntV(10)>>>>>>).query,
       <<IntV(10)>>>>,
     <<build_update_query("products", <<<<"price", IntV(10)>>>>,
                          <<<<"product_id", "=", IntV(7)>>>>).query,
       <<IntV(10), IntV(7)>>>>,
     <<build_insert_query("categories", <<"category_name">>,
                          <<<<StrV(<<"a">>)>>>>).query,
       <<StrV(<<"a">>)>>>>,
     <<build_insert_query("categories", <<"category_name">>,
                          <<<<StrV(<<"a">>)>>, <<StrV(<<"b">>)>>>>).query,
       <<StrV(<<"a">>), StrV(<<"b">>)>>>>}

\* entries of a related-record insertion: the menu's product and its
\* inventory transaction (reduced to a value column and the link columns),
\* a category, an entry with a column of another table, an entry without
\* an id_column
RelatedEntryInputs ==
    {<<"products", <<<<"price", IntV(10)>>, <<"category_id", IntV(1)>>>>, "product_id">>,
     <<"inventory_transactions",
       <<<<"product_id", IntV(0)>>, <<"notes", StrV(<<"a", "'">>)>>>>, "transaction_id">>,
     <<"categories", <<<<"category_name", StrV(<<"a", "'">>)>>>>, "category_id">>,
     <<"categories", <<<<"price", IntV(10)>>>>, "category_id">>,
     <<"inventory_transactions", <<<<"product_id", IntV(0)>>>>, "">>}

RelatedInputs == SeqsUpTo(RelatedEntryInputs, MaxChain)

\* one driver outcome per entry
OutcomeSeqs(n) == {os \in SeqsUpTo(DriverOutcomes, n) : Len(os) = n}

(***************************************************************************)
(* The calls.  The CLI loop takes one request at a time: a call is made    *)
(* from the menu, and its transient record is dropped on return to it.     *)
(***************************************************************************)
NoResult == [kind |-> "none"]
AtMenu == call.op = "none"

\* the session run() starts its loop with: connect_to_database succeeded,
\* so current_user owns the manager's open connection
Session(current_user, owner, open) ==
    [current_user |-> current_user, owner |-> owner, open |-> open]
ConnectedSession == Session("app_user", "app_user", TRUE)

\* the pinger is a separate process; here it is not running
PingerOff ==
    [pc |-> "off", port |-> <<>>, interval |-> <<>>, sleep |-> 0, open |-> 0,
     logged |-> <<>>]

Init ==
    /\ VALID_IDENTIFIERS = Registry
    /\ call = [op |-> "none"]
    /\ result = NoResult
    /\ executed = <<>>
    /\ session = ConnectedSession
    /\ pinger = PingerOff

\* back at the menu prompt
ReturnToMenu ==
    /\ ~AtMenu
    /\ call' = [op |-> "none"]
    /\ result' = NoResult
    /\ executed' = <<>>
    /\ UNCHANGED <<VALID_IDENTIFIERS, session, pinger>>

\* QueryBuilder.validate_identifier(table, column)
ValidateIdentifier ==
    /\ AtMenu
    /\ \E table \in TableInputs,
          column \in {NoColumn} \cup {Col(c) : c \in CondColInputs \cup {"product_id"}} :
        /\ call' = [op |-> "validate_identifier", table |-> table, column |-> column]
        /\ result' = [kind |-> "bool", value |-> validate_identifier(table, column)]
        /\ executed' = <<>>
        /\ UNCHANGED <<VALID_IDENTIFIERS, session, pinger>>

\* QueryBuilder.build_select_query(table, filters)
BuildSelectQuery ==
    /\ AtMenu
    /\ \E table \in TableInputs, filters \in {<<>>} \cup {<<f>> : f \in FilterInputs} :
        /\ call' = [op |-> "build_select_query", table |-> table, filters |-> filters]
        /\ result' = [kind |-> "built", built |-> build_select_query(table, filters)]
        /\ executed' = <<>>
        /\ UNCHANGED <<VALID_IDENTIFIERS, session, pinger>>

\* QueryBuilder.build_update_query(table, set_clauses, where_clauses)
BuildUpdateQuery ==
    /\ AtMenu
    /\ \E table \in TableInputs, set_clauses \in SetClauseInputs,
          where_clauses \in WhereInputs :
        /\ call' = [op |-> "build_update_query", table |-> table,
                    set_clauses |-> set_clauses, where_clauses |-> where_clauses]
        /\ result' = [kind |-> "built",
                      built |-> build_update_query(table, set_clauses, where_clauses)]
        /\ executed' = <<>>
        /\ UNCHANGED <<VALID_IDENTIFIERS, session, pinger>>

\* QueryBuilder.build_insert_query(table, columns, values_list)
BuildInsertQuery ==
    /\ AtMenu
    /\ \E table \in {"categories", "products", "users"},
          rows \in SeqsUpTo(RowInputs, MaxRows) \ {<<>>} :
        LET columns == Keys(rows[1])
            values_list == [k \in 1..Len(rows) |-> Values(rows[k])]
        IN  /\ call' = [op |-> "build_insert_query", table |-> table,
                        columns |-> columns, values_list |-> values_list]
            /\ result' = [kind |-> "built",
                          built |-> build_insert_query(table, columns, values_list)]
            /\ executed' = <<>>
            /\ UNCHANGED <<VALID_IDENTIFIERS, session, pinger>>

\* QueryBuilder.sanitize_value(value)
SanitizeValue ==
    /\ AtMenu
    /\ \E value \in SanitizeInputs :
        /\ call' = [op |-> "sanitize_value", value |-> value]
        /\ result' = [kind |-> "value", value |-> sanitize_value(value)]
        /\ executed' = <<>>
        /\ UNCHANGED <<VALID_IDENTIFIERS, session, pinger>>

\* DatabaseManager.execute_query(query, params): the statement goes to the
\* driver once, and the driver runs it or raises
ExecuteQuery ==
    /\ AtMenu
    /\ \E stmt \in StatementInputs, outcome \in DriverOutcomes :
        /\ call' = [op |-> "execute_query", query |-> stmt[1], params |-> stmt[2],
                    outcome |-> outcome]
        /\ result' = [kind |-> "executed",
                      ret |-> execute_query(stmt[1], stmt[2], outcome)]
        /\ executed' = <<Submitted(stmt[1], stmt[2])>>
        /\ UNCHANGED <<VALID_IDENTIFIERS, session, pinger>>

\* a variant in which a refused call adds the empty column name to the
\* registry entry of its table
RegisteringOperation(c, o) ==
    /\ call' = c
    /\ result' = [kind |-> "op", status |-> o.status, msg |-> o.msg, ret |-> o.ret]
    /\ executed' = o.executed
    /\ VALID_IDENTIFIERS' =
           IF o.status = "rejected" /\ c.table \in DOMAIN VALID_IDENTIFIERS
              /\ "" \notin Range(VALID_IDENTIFIERS[c.table])
           THEN [VALID_IDENTIFIERS EXCEPT ![c.table] = Append(@, "")]
           ELSE VALID_IDENTIFIERS
    /\ UNCHANGED <<session, pinger>>

\* an InventoryOperations call and what it did
Operation(c, o) ==
    /\ call' = c
    /\ result' = [kind |-> "op", status |-> o.status, msg |-> o.msg, ret |-> o.ret]
    /\ executed' = o.executed
    /\ UNCHANGED <<VALID_IDENTIFIERS, session, pinger>>

DisplayTable ==
    /\ AtMenu
    /\ \E table \in TableInputs, outcome \in DriverOutcomes :
        Operation([op |-> "display_table", table |-> table, outcome |-> outcome],
                  display_table(table, outcome))

FilterSingleValue ==
    /\ AtMenu
    /\ \E table \in TableInputs, column \in CondColInputs,
          value \in ScalarInputs \cup InListInputs, outcome \in DriverOutcomes :
        Operation([op |-> "filter_single_value", table |-> table, column |-> column,
                   value |-> value, outcome |-> outcome],
                  filter_single_value(table, column, value, outcome))

FilterMultipleValues ==
    /\ AtMenu
    /\ \E table \in TableInputs, filters \in FilterInputs, outcome \in DriverOutcomes :
        Operation([op |-> "filter_multiple_values", table |-> table,
                   filters |-> filters, outcome |-> outcome],
                  filter_multiple_values(table, filters, outcome))

UpdateSingleRecord ==
    /\ AtMenu
    /\ \E table \in TableInputs, record_id \in RecordIdInputs,
          updates \in SetClauseInputs, outcome \in DriverOutcomes :
        \E rowcount \in RowCounts(outcome) :
            Operation([op |-> "update_single_record", table |-> table,
                       record_id |-> record_id, updates |-> updates,
                       outcome |-> outcome, rowcount |-> rowcount],
                      update_single_record(table, record_id, updates, outcome, rowcount))

UpdateMultipleRecords ==
    /\ AtMenu
    /\ \E table \in TableInputs, filter_column \in CondColInputs,
          filter_values \in InListInputs \cup ScalarInputs,
          update_column \in {"price", "description", "category_id", ""},
          new_value \in ScalarInputs, outcome \in DriverOutcomes :
        Operation([op |-> "update_multiple_records", table |-> table,
                   filter_column |-> filter_column, filter_values |-> filter_values,
                   update_column |-> update_column, new_value |-> new_value,
                   outcome |-> outcome],
                  update_multiple_records(table, filter_column, filter_values,
                                          update_column, new_value, outcome))

InsertSingleRecord ==
    /\ AtMenu
    /\ \E table \in TableInputs,
          data \in Dicts(InsertItemInputs, MaxSet) \cup {ExampleInsertData},
          outcome \in DriverOutcomes :
        Operation([op |-> "insert_single_record", table |-> table, data |-> data,
                   outcome |-> outcome],
                  insert_single_record(table, data, outcome))

InsertMultipleRecords ==
    /\ AtMenu
    /\ \E table \in {"categories", "products", "users"},
          records \in SeqsUpTo(RowInputs, MaxRows), outcome \in DriverOutcomes :
        Operation([op |-> "insert_multiple_records", table |-> table,
                   records |-> records, outcome |-> outcome],
                  insert_multiple_records(table, records, outcome))

InsertRelatedRecords ==
    /\ AtMenu
    /\ \E tables_data \in RelatedInputs :
       \E outcomes \in OutcomeSeqs(Len(tables_data)) :
        LET o == insert_related_records(tables_data, outcomes)
        IN  /\ call' = [op |-> "insert_related_records", tables_data |-> tables_data,
                        outcomes |-> outcomes]
            /\ result' = [kind |-> "op", status |-> o.status, msg |-> o.msg,
                          ret |-> o.ret, inserted_ids |-> o.inserted_ids]
            /\ executed' = o.executed
            /\ UNCHANGED <<VALID_IDENTIFIERS, session, pinger>>

Next ==
    \/ ReturnToMenu
    \/ ValidateIdentifier
    \/ BuildSelectQuery
    \/ BuildUpdateQuery
    \/ BuildInsertQuery
    \/ SanitizeValue
    \/ ExecuteQuery
    \/ DisplayTable
    \/ FilterSingleValue
    \/ FilterMultipleValues
    \/ UpdateSingleRecord
    \/ UpdateMultipleRecords
    \/ InsertSingleRecord
    \/ InsertMultipleRecords
    \/ InsertRelatedRecords

Spec == Init /\ [][Next]_vars

(***************************************************************************)
(* main.py: the menus.  A menu reads lines of text, converts them, and     *)
(* calls one operation on the session's connection.                        *)
(***************************************************************************)
\* a float: its value in hundredths (the texts explored have at most two
\* fraction digits)
FracScale == 100
FloatV(hundredths) == [t |-> "float", i |-> hundredths, s |-> <<>>, items |-> <<>>]

Digits == {"0", "1", "2", "3", "4", "5", "6", "7", "8", "9"}
DigitValue(c) ==
    CASE c = "0" -> 0 [] c = "1" -> 1 [] c = "2" -> 2 [] c = "3" -> 3 [] c = "4" -> 4
      [] c = "5" -> 5 [] c = "6" -> 6 [] c = "7" -> 7 [] c = "8" -> 8 [] c = "9" -> 9

RECURSIVE DigitsValue(_)
\* the number a run of digits writes
DigitsValue(cs) ==
    IF cs = <<>> THEN 0 ELSE 10 * DigitsValue(SubSeq(cs, 1, Len(cs) - 1)) + DigitValue(cs[Len(cs)])

AllDigits(cs) == \A k \in 1..Len(cs) : cs[k] \in Digits

RECURSIVE Strip(_)
\* str.strip(): blanks removed from both ends
Strip(cs) ==
    IF cs # <<>> /\ Head(cs) = " " THEN Strip(Tail(cs))
    ELSE IF cs # <<>> /\ cs[Len(cs)] = " " THEN Strip(SubSeq(cs, 1, Len(cs) - 1))
    ELSE cs

Signed(cs) == cs # <<>> /\ Head(cs) \in {"-", "+"}
Unsigned(cs) == IF Signed(cs) THEN Tail(cs) ELSE cs
Sign(cs) == IF cs # <<>> /\ Head(cs) = "-" THEN -1 ELSE 1

\* the outcome of a conversion: a value, or ValueError
Converted(v) == [ok |-> TRUE, value |-> v]
ValueError == [ok |-> FALSE, value |-> NoneV]

\* int(text): an optional sign and one or more digits, blanks around them
\* ignored
py_int(text) ==
    LET cs == Strip(text)
    IN  IF Unsigned(cs) # <<>> /\ AllDigits(Unsigned(cs))
        THEN Converted(IntV(Sign(cs) * DigitsValue(Unsigned(cs))))
        ELSE ValueError

\* float(text) for a text with a point: an optional sign, digits with one
\* point among them and at least one digit
py_float(text) ==
    LET cs == Unsigned(Strip(text))
        points == {k \in 1..Len(cs) : cs[k] = "."}
        p == CHOOSE k \in points : TRUE
        whole == SubSeq(cs, 1, p - 1)
        frac == SubSeq(cs, p + 1, Len(cs))
        padded == IF Len(frac) = 0 THEN <<"0", "0">>
                  ELSE IF Len(frac) = 1 THEN frac \o <<"0">>
                  ELSE frac
    IN  IF Cardinality(points) = 1 /\ Len(cs) > 1 /\ AllDigits(whole) /\ AllDigits(frac)
           /\ Len(frac) <= 2
        THEN Converted(FloatV(Sign(Strip(text))
                              * (FracScale * DigitsValue(whole) + DigitsValue(padded))))
        ELSE ValueError

NumericColumn(column_name) ==
    EndsWith(column_name, "_id") \/ column_name \in {"quantity", "price", "cost"}

\* a variant that lets the ValueError of a failed conversion escape
UncaughtCoerce(column_name, text) ==
    IF ~NumericColumn(column_name) THEN Converted(StrV(text))
    ELSE IF \E k \in 1..Len(text) : text[k] = "." THEN py_float(text)
    ELSE py_int(text)

\* "Convert numeric values": float when the text has a point, int
\* otherwise, and the text itself when that raises ValueError
Coerce(column_name, text) ==
    IF ~NumericColumn(column_name) THEN Converted(StrV(text))
    ELSE LET c == IF \E k \in 1..Len(text) : text[k] = "." THEN py_float(text)
                   ELSE py_int(text)
         IN  IF c.ok THEN c ELSE Converted(StrV(text))

RECURSIVE split(_, _)
\* str.split(sep) for a one-character separator
split(cs, sep) ==
    IF \A k \in 1..Len(cs) : cs[k] # sep THEN <<cs>>
    ELSE LET p == CHOOSE k \in 1..Len(cs) : cs[k] = sep /\ \A m \in 1..(k - 1) : cs[m] # sep
         IN  <<SubSeq(cs, 1, p - 1)>> \o split(SubSeq(cs, p + 1, Len(cs)), sep)

\* what the introspection queries report: the tables in name order and a
\* table's columns in ordinal order, or nothing when the query fails
TableNames == <<"categories", "inventory_transactions", "products", "suppliers">>
get_table_names(outcome) == IF outcome = "ok" THEN TableNames ELSE <<>>
get_table_columns(table_name, outcome) == IF outcome = "ok" THEN Registry[table_name] ELSE <<>>

\* the driver on the session's connection: a closed connection only raises
SessionOutcomes == IF session.open THEN DriverOutcomes ELSE {"error"}

\* what a menu did: the message it printed itself, whether it called its
\* operation, with which value, and what the operation reported
MenuResult(msg, invoked, passed, o) ==
    [kind |-> "menu", msg |-> msg, invoked |-> invoked, passed |-> passed,
     status |-> o.status, opmsg |-> o.msg, ret |-> o.ret, executed |-> o.executed]
NotInvoked(msg) == MenuResult(msg, FALSE, NoneV, Outcome("none", "", "None", <<>>))

\* 0 <= int(choice) - 1 < len(options)
InRange(n, options) == 0 <= n - 1 /\ n - 1 < Len(options)

filter_single_value_menu(table_choice, col_choice, value_text, names, cols, outcome) ==
    LET tables == get_table_names(names)
        t == py_int(table_choice)
    IN  IF ~t.ok THEN NotInvoked("Please enter valid numbers")
        ELSE IF ~InRange(t.value.i, tables) THEN NotInvoked("Invalid table selection")
        ELSE
        LET table_name == tables[t.value.i]
            columns == get_table_columns(table_name, cols)
            c == py_int(col_choice)
        IN  IF ~c.ok THEN NotInvoked("Please enter valid numbers")
            ELSE IF ~InRange(c.value.i, columns) THEN NotInvoked("Invalid column selection")
            ELSE
            LET column_name == columns[c.value.i]
                v == Coerce(column_name, Strip(value_text))
            IN  IF ~v.ok THEN NotInvoked("Please enter valid numbers")
                ELSE MenuResult("", TRUE, v.value,
                                filter_single_value(table_name, column_name, v.value, outcome))

\* the values of an IN condition: the text split at commas, each part
\* stripped and, for a numeric column, converted
InValues(column_name, value_text) ==
    LET parts == split(Strip(value_text), ",")
        vs == [k \in 1..Len(parts) |-> Coerce(column_name, Strip(parts[k]))]
    IN  [ok |-> \A k \in 1..Len(vs) : vs[k].ok,
         value |-> ListV([k \in 1..Len(vs) |-> vs[k].value])]

RECURSIVE CollectFilters(_, _, _)
\* the while loop of filter_multiple_values_menu over the entered
\* conditions (column choice, operator, value text); the end of the
\* entries is the empty line that ends the loop
CollectFilters(columns, entries, filters) ==
    IF entries = <<>> THEN [ok |-> TRUE, filters |-> filters]
    ELSE
    LET c == py_int(Head(entries)[1])
        operator == upper(Head(entries)[2])
        column_name == columns[c.value.i]
        v == IF operator = "IN" THEN InValues(column_name, Head(entries)[3])
             ELSE Coerce(column_name, Strip(Head(entries)[3]))
    IN  IF ~c.ok THEN [ok |-> FALSE, filters |-> <<>>]
        ELSE IF ~InRange(c.value.i, columns)
        THEN CollectFilters(columns, Tail(entries), filters)
        ELSE IF ~v.ok THEN [ok |-> FALSE, filters |-> <<>>]
        ELSE CollectFilters(columns, Tail(entries),
                            Append(filters, <<column_name, operator, v.value>>))

filter_multiple_values_menu(table_choice, entries, names, cols, outcome) ==
    LET tables == get_table_names(names)
        t == py_int(table_choice)
    IN  IF ~t.ok THEN NotInvoked("Please enter valid numbers")
        ELSE IF ~InRange(t.value.i, tables) THEN NotInvoked("Invalid table selection")
        ELSE
        LET table_name == tables[t.value.i]
            columns == get_table_columns(table_name, cols)
            collected == CollectFilters(columns, entries, <<>>)
        IN  IF ~collected.ok THEN NotInvoked("Please enter valid numbers")
            ELSE IF collected.filters = <<>> THEN NotInvoked("No filters specified")
            ELSE MenuResult("", TRUE, collected.filters,
                            filter_multiple_values(table_name, collected.filters, outcome))


\* DatabaseManager.disconnect(): cursor and connection are closed; the
\* manager keeps referring to the closed connection
disconnect(s) == Session(s.current_user, s.owner, FALSE)

\* DatabaseManager.connect(...): on success the manager holds a new open
\* connection of username; when psycopg2.connect raises nothing is assigned
connect(s, username, outcome) ==
    IF outcome = "ok" THEN Session(s.current_user, username, TRUE) ELSE s

\* the user switch_user_menu logs in for a choice; <<>> for any other choice
Preset(choice, typed_username) ==
    CASE choice = "1" -> <<"app_user">>
      [] choice = "2" -> <<"report_user">>
      [] choice = "3" -> <<"inventory_admin">>
      [] choice = "4" -> <<typed_username>>
      [] OTHER -> <<>>

\* the session switch_user_menu leaves behind
switch_user_menu(s, choice, typed_username, outcome) ==
    IF Preset(choice, typed_username) = <<>> THEN s
    ELSE LET username == Preset(choice, typed_username)[1]
             reconnected == connect(disconnect(s), username, outcome)
         IN  IF outcome = "ok"
             THEN Session(username, reconnected.owner, reconnected.open)
             ELSE reconnected

(***************************************************************************)
(* The lines typed into the menus.                                         *)
(***************************************************************************)
\* a table or column choice: the first, third and fifth entry, and a text
\* that is no number
ChoiceInputs == {<<"1">>, <<"3">>, <<"5">>, <<"x">>}

\* the text entered for a value
ValueTextInputs ==
    {<<"7">>, <<"-", "3">>, <<"1", ".", "5">>, <<"a", "b", "c">>, <<>>,
     <<"1", ".", "2", ".", "3">>, <<"a", ".", "b">>, <<"7", "'">>, <<" ", "7">>}

\* one round of the filter loop: column choice, operator, value text
MenuEntryInputs ==
    {<<<<"5">>, ">", <<"1", ".", "5">>>>,
     <<<<"1">>, "in", <<"1", ",", " ", "x", ",", "2", ".", "5">>>>,
     <<<<"3">>, "=", <<"a", "b", "c">>>>,
     <<<<"2">>, "IN", <<"a", ",", "b">>>>,
     <<<<"9">>, "=", <<"1">>>>,
     <<<<"x">>, "=", <<"1">>>>}

MaxEntered == 2     \* most rounds of the filter loop
EnteredInputs == SeqsUpTo(MenuEntryInputs, MaxEntered)

SwitchChoiceInputs == {"1", "2", "3", "4", "x"}
TypedUserInputs == {"app_user", "eve"}

(***************************************************************************)
(* The CLI session: the menu handlers run() dispatches to.                 *)
(***************************************************************************)
Menu(c, m) ==
    /\ call' = c
    /\ result' = [kind |-> "menu", msg |-> m.msg, invoked |-> m.invoked,
                  passed |-> m.passed, status |-> m.status, opmsg |-> m.opmsg,
                  ret |-> m.ret]
    /\ executed' = m.executed
    /\ UNCHANGED <<VALID_IDENTIFIERS, session, pinger>>

FilterSingleValueMenu ==
    /\ AtMenu
    /\ \E table_choice \in ChoiceInputs, col_choice \in ChoiceInputs,
          value_text \in ValueTextInputs,
          names \in SessionOutcomes, cols \in SessionOutcomes, outcome \in SessionOutcomes :
        Menu([op |-> "filter_single_value_menu", table_choice |-> table_choice,
              col_choice |-> col_choice, value_text |-> value_text,
              names |-> names, cols |-> cols, outcome |-> outcome],
             filter_single_value_menu(table_choice, col_choice, value_text,
                                      names, cols, outcome))

FilterMultipleValuesMenu ==
    /\ AtMenu
    /\ \E table_choice \in {<<"3">>, <<"x">>}, entries \in EnteredInputs,
          names \in SessionOutcomes, cols \in SessionOutcomes, outcome \in SessionOutcomes :
        Menu([op |-> "filter_multiple_values_menu", table_choice |-> table_choice,
              entries |-> entries, names |-> names, cols |-> cols, outcome |-> outcome],
             filter_multiple_values_menu(table_choice, entries, names, cols, outcome))

SwitchUserMenu ==
    /\ AtMenu
    /\ \E choice \in SwitchChoiceInputs, typed_username \in TypedUserInputs,
          outcome \in DriverOutcomes :
        /\ call' = [op |-> "switch_user_menu", choice |-> choice,
                    typed_username |-> typed_username, outcome |-> outcome,
                    before |-> session]
        /\ result' = [kind |-> "switched"]
        /\ executed' = <<>>
        /\ session' = switch_user_menu(session, choice, typed_username, outcome)
        /\ UNCHANGED <<VALID_IDENTIFIERS, pinger>>

CliNext ==
    \/ ReturnToMenu
    \/ FilterSingleValueMenu
    \/ FilterMultipleValuesMenu
    \/ SwitchUserMenu

CliSpec == Init /\ [][CliNext]_vars

(***************************************************************************)
(* Task1_Postgres/pinger.py.  The environment is read as text: <<>> is an  *)
(* unset variable, <<text>> a set one.                                     *)
(***************************************************************************)
MaxOpen == 2        \* most connections the pinger is followed leaving open

\* int(os.getenv(name, default))
EnvInt(env, default) == IF env = <<>> THEN Converted(IntV(default)) ELSE py_int(env[1])

\* what one connection attempt and version query can do: the connection
\* is refused, the query raises, no row comes back, or a version text does
VersionInputs ==
    {<<"PostgreSQL", " ", "1", "6", ".", "2">>, <<"PostgreSQL", " ", "1", "7", ".", "0">>,
     <<"PostgreSQL", " ", "1", "5", ".", "4">>, <<"PostgreSQL", " ", "d", "e", "v">>,
     <<"PostgreSQL">>, <<"C", "R", "D", "B", " ", "2", "3">>}
AttemptShapes ==
    {[connected |-> FALSE, executed |-> FALSE, version |-> <<>>],
     [connected |-> TRUE, executed |-> FALSE, version |-> <<>>],
     [connected |-> TRUE, executed |-> TRUE, version |-> <<>>]}
    \cup {[connected |-> TRUE, executed |-> TRUE, version |-> <<v>>] : v \in VersionInputs}
\* collected: whether the runtime finalizes a connection object nothing
\* refers to any more when the function returns (the language leaves it open)
AttemptInputs ==
    {[connected |-> a.connected, executed |-> a.executed, version |-> a.version,
      collected |-> c] : a \in AttemptShapes, c \in BOOLEAN}

\* version.split("PostgreSQL")[1].split(".")[0].strip().split()[0]
MajorText(version) ==
    LET at == CHOOSE k \in 1..Len(version) :
                  version[k] = "PostgreSQL" /\ \A m \in 1..(k - 1) : version[m] # "PostgreSQL"
        version_str == SubSeq(version, at + 1, Len(version))
        head == Strip(split(version_str, ".")[1])
    IN  IF head = <<>> THEN <<>> ELSE <<split(head, " ")[1]>>

\* the level of the one message the version branch logs
VersionLevel(version) ==
    IF \A k \in 1..Len(version) : version[k] # "PostgreSQL" THEN "WARNING"
    ELSE IF MajorText(version) = <<>> THEN "WARNING"
    ELSE IF ~py_int(MajorText(version)[1]).ok THEN "WARNING"
    ELSE IF py_int(MajorText(version)[1]).value.i \in {16, 17} THEN "OK"
    ELSE "WARNING"

\* connections check_database leaves open: conn.close() is reached only
\* after execute and fetchone()[0] went through
LeftOpen(attempt) ==
    IF attempt.connected /\ (~attempt.executed \/ attempt.version = <<>>)
       /\ ~attempt.collected
    THEN 1 ELSE 0

\* check_database(): the port is converted before the try block, so its
\* ValueError leaves the function; inside the try every path logs once
check_database(p, attempt) ==
    IF ~EnvInt(p.port, 5432).ok THEN [p EXCEPT !.pc = "crashed", !.logged = <<>>]
    ELSE [p EXCEPT !.pc = "sleep",
                   !.open = @ + LeftOpen(attempt),
                   !.logged = IF attempt.connected /\ attempt.executed
                                 /\ attempt.version # <<>>
                              THEN <<VersionLevel(attempt.version[1])>>
                              ELSE <<"ERROR">>]

PortEnvInputs == {<<>>, <<<<"5", "4", "3", "2">>>>, <<<<"a", "b", "c">>>>, <<<<>>>>}
IntervalEnvInputs == {<<>>, <<<<"5">>>>, <<<<"0">>>>, <<<<"x">>>>, <<<<"-", "1">>>>}

\* main() up to the loop: the interval is read, 20 when it is no number
PingerStart ==
    /\ AtMenu
    /\ pinger.pc = "off"
    /\ \E port \in PortEnvInputs, interval \in IntervalEnvInputs :
        pinger' = [pc |-> "check", port |-> port, interval |-> interval,
                   sleep |-> IF EnvInt(interval, 20).ok THEN EnvInt(interval, 20).value.i
                             ELSE 20,
                   open |-> 0,
                   logged |-> IF EnvInt(interval, 20).ok THEN <<>> ELSE <<"ERROR">>]
    /\ UNCHANGED <<VALID_IDENTIFIERS, call, result, executed, session>>

CheckDatabase ==
    /\ pinger.pc = "check"
    /\ \E attempt \in AttemptInputs :
        /\ pinger.open + LeftOpen(attempt) <= MaxOpen
        /\ pinger' = check_database(pinger, attempt)
    /\ UNCHANGED <<VALID_IDENTIFIERS, call, result, executed, session>>

\* time.sleep(interval): raises ValueError for a negative interval
Sleep ==
    /\ pinger.pc = "sleep"
    /\ pinger' = [pinger EXCEPT !.pc = IF pinger.sleep < 0 THEN "crashed" ELSE "check",
                                !.logged = <<>>]
    /\ UNCHANGED <<VALID_IDENTIFIERS, call, result, executed, session>>

(***************************************************************************)
(* Task1_Postgres/app.py and app.py: connection parameters from            *)
(* config.json and the entered credentials, then one test connection.      *)
(***************************************************************************)
MaxConfig == 3      \* most entries of config.json

ALLOWED_KEYS ==
    <<<<"host", StrV(<<"l", "o", "c", "a", "l", "h", "o", "s", "t">>)>>,
      <<"port", IntV(5432)>>,
      <<"dbname", NoneV>>,
      <<"sslmode", StrV(<<"p", "r", "e", "f", "e", "r">>)>>,
      <<"connect_timeout", IntV(10)>>,
      <<"client_encoding", StrV(<<"U", "T", "F", "8">>)>>>>

\* d[key] = value
SetItem(d, key, value) ==
    IF HasKey(d, key)
    THEN [k \in 1..Len(d) |-> IF d[k][1] = key THEN <<key, value>> ELSE d[k]]
    ELSE Append(d, <<key, value>>)

\* d.get(key, default)
Get(d, key, default) == IF HasKey(d, key) THEN DictGet(d, key) ELSE default

\* int(value) of a JSON value: None and lists raise TypeError, a text that
\* is no number raises ValueError
RaisesTypeError(v) == v.t \in {"none", "list"}
int(v) ==
    IF v.t = "int" THEN Converted(v)
    ELSE IF v.t = "float"
         THEN Converted(IntV(IF v.i >= 0 THEN v.i \div FracScale
                             ELSE -((-v.i) \div FracScale)))
    ELSE IF v.t = "str" THEN py_int(v.s)
    ELSE ValueError

\* not value
Falsy(v) ==
    \/ v.t = "none"
    \/ v.t = "str" /\ v.s = <<>>
    \/ v.t = "list" /\ v.items = <<>>
    \/ v.t \in {"int", "float"} /\ v.i = 0

RECURSIVE CopyAllowed(_, _)
\* the loop over ALLOWED_KEYS: the entry of the config, else the default
\* unless the default is None
CopyAllowed(allowed, config) ==
    IF allowed = <<>> THEN <<>>
    ELSE LET key == Head(allowed)[1]
             default == Head(allowed)[2]
             rest == CopyAllowed(Tail(allowed), config)
         IN  IF HasKey(config, key) THEN <<<<key, DictGet(config, key)>>>> \o rest
             ELSE IF default # NoneV THEN <<<<key, default>>>> \o rest
             ELSE rest

Params(conn_params) == [kind |-> "params", params |-> conn_params]
Exit == [kind |-> "exit", params |-> <<>>]
Crash == [kind |-> "crash", params |-> <<>>]

\* a variant that copies every entry of the config after the credentials
CopyingEveryEntry(config, username, password) ==
    Params(config \o <<<<"user", username>>, <<"password", password>>>>)

\* create_connection(config, username, password) of Task1_Postgres/app.py
create_connection(config, username, password) ==
    LET copied == CopyAllowed(ALLOWED_KEYS, config)
        conn_params == SetItem(SetItem(copied, "user", username), "password", password)
        port == Get(conn_params, "port", IntV(5432))
    IN  IF ~HasKey(conn_params, "dbname") THEN Exit
        ELSE IF RaisesTypeError(port) THEN Crash
        ELSE IF ~int(port).ok THEN Exit
        ELSE Params(SetItem(conn_params, "port", int(port).value))

\* the module body of app.py up to the connection (lines 14-40)
script_params(config, username, password) ==
    LET host == <<<<"host", Get(config, "host", DictGet(ALLOWED_KEYS, "host"))>>>>
        port == Get(config, "port", DictGet(ALLOWED_KEYS, "port"))
        with_port ==
            SetItem(host, "port",
                    IF RaisesTypeError(port) \/ ~int(port).ok
                    THEN DictGet(ALLOWED_KEYS, "port") ELSE int(port).value)
        with_dbname ==
            SetItem(with_port, "dbname", Get(config, "dbname", DictGet(ALLOWED_KEYS, "dbname")))
    IN  IF Falsy(DictGet(with_dbname, "dbname")) THEN Exit
        ELSE Params(SetItem(SetItem(with_dbname, "user", username), "password", password))

\* what a test connection can do: refused, a query (or the subscript of its
\* missing row) raises inside the cursor block, or all goes through
TestInputs ==
    {[connected |-> c, raised |-> r, collected |-> g] :
        c \in BOOLEAN, r \in BOOLEAN, g \in BOOLEAN}

\* test_connection(conn_params): connection.close() follows the cursor
\* block, the two handlers return False without closing
test_connection(conn_params, attempt) ==
    IF ~attempt.connected THEN [success |-> FALSE, open |-> 0]
    ELSE IF attempt.raised
         THEN [success |-> FALSE, open |-> IF attempt.collected THEN 0 ELSE 1]
    ELSE [success |-> TRUE, open |-> 0]

\* lines 43-52 of app.py: cur.close() and conn.close() end the try block
script_connection(conn_params, attempt) ==
    IF ~attempt.connected THEN [success |-> FALSE, open |-> 0]
    ELSE IF attempt.raised
         THEN [success |-> FALSE, open |-> IF attempt.collected THEN 0 ELSE 1]
    ELSE [success |-> TRUE, open |-> 0]

NotTested == [success |-> FALSE, open |-> 0]

ConfigItemInputs ==
    {<<"host", StrV(<<"d", "b">>)>>,
     <<"port", IntV(6543)>>, <<"port", StrV(<<"6", "5">>)>>, <<"port", StrV(<<"a">>)>>,
     <<"port", NoneV>>,
     <<"dbname", StrV(<<"s", "h", "o", "p">>)>>, <<"dbname", StrV(<<>>)>>,
     <<"user", StrV(<<"r", "o", "o", "t">>)>>, <<"password", StrV(<<"p", "w">>)>>,
     <<"options", StrV(<<"-", "c">>)>>, <<"sslmode", StrV(<<"o", "f", "f">>)>>}
ConfigInputs == Dicts(ConfigItemInputs, MaxConfig)
UsernameInputs == {StrV(<<"a", "n", "n">>), StrV(<<>>)}
PasswordInputs == {StrV(<<"s", "3">>), StrV(<<>>)}

\* main() of Task1_Postgres/app.py, run while the pinger is not running
AppMain ==
    /\ AtMenu
    /\ pinger.pc = "off"
    /\ \E config \in ConfigInputs, username \in UsernameInputs,
          password \in PasswordInputs, attempt \in TestInputs :
        LET created == create_connection(config, username, password)
        IN  /\ call' = [op |-> "main", config |-> config, username |-> username,
                        password |-> password, attempt |-> attempt]
            /\ result' = [kind |-> "main", created |-> created,
                          tested |-> IF created.kind = "params"
                                     THEN test_connection(created.params, attempt)
                                     ELSE NotTested]
    /\ executed' = <<>>
    /\ UNCHANGED <<VALID_IDENTIFIERS, session, pinger>>

\* app.py run as a script
AppScript ==
    /\ AtMenu
    /\ pinger.pc = "off"
    /\ \E config \in ConfigInputs, username \in UsernameInputs,
          password \in PasswordInputs, attempt \in TestInputs :
        LET created == script_params(config, username, password)
        IN  /\ call' = [op |-> "script", config |-> config, username |-> username,
                        password |-> password, attempt |-> attempt]
            /\ result' = [kind |-> "script", created |-> created,
                          tested |-> IF created.kind = "params"
                                     THEN script_connection(created.params, attempt)
                                     ELSE NotTested]
    /\ executed' = <<>>
    /\ UNCHANGED <<VALID_IDENTIFIERS, session, pinger>>

Task1Next ==
    \/ ReturnToMenu
    \/ PingerStart
    \/ CheckDatabase
    \/ Sleep
    \/ AppMain
    \/ AppScript

Task1Spec == Init /\ [][Task1Next]_vars


(***************************************************************************)
(* DatabaseManager.log_error.  The text of an exception is the sequence of *)
(* its fragments and "x in str(error)" asks for the fragment x; a logged   *)
(* line and the stderr output are sequences of fragments too.  The cross   *)
(* mark glyph that opens the logger line is left out of ErrorMark.         *)
(***************************************************************************)
MaxFragments == 2   \* most fragments of an exception text

ErrorMark == "ERROR: "
Contains(text, fragment) == \E k \in 1..Len(text) : text[k] = fragment

LogOutput(line, stderr) == [kind |-> "logged", line |-> line, stderr |-> stderr]

\* a variant that puts the exception text on the logger line
LeakingLogError(message, error) ==
    IF error = <<>> THEN LogOutput(<<ErrorMark \o message>>, <<>>)
    ELSE LogOutput(<<ErrorMark \o "Operation failed: " \o message \o ": ">> \o error[1],
                   <<"Technical details: ">> \o error[1] \o <<"\n">>)

\* log_error(message, error): error is <<>> for None, <<text>> for an
\* exception (an exception object is always true)
log_error(message, error) ==
    LET error_msg ==
            IF error = <<>> THEN message
            ELSE IF Contains(error[1], "password authentication failed")
                 THEN "Connection failed: Invalid username or password"
            ELSE IF Contains(error[1], "could not connect")
                 THEN "Connection failed: Cannot connect to database server"
            ELSE IF Contains(error[1], "duplicate key")
                 THEN "Operation failed: Record with this value already exists"
            ELSE "Operation failed: " \o message
    IN  LogOutput(<<ErrorMark \o error_msg>>,
                  IF error = <<>> THEN <<>>
                  ELSE <<"Technical details: ">> \o error[1] \o <<"\n">>)

\* the messages connect, execute_query, get_table_names and
\* get_table_columns hand to log_error
LogMessageInputs ==
    {"Failed to connect to database", "Query execution failed",
     "Failed to get table names"}
    \cup {"Failed to get columns for table '" \o t \o "'" : t \in {"products", "x' --"}}

ErrorFragmentInputs ==
    {"FATAL:  ", "password authentication failed", " for user \"eve\"",
     "could not connect", " to server: Connection refused",
     "duplicate key", " value violates unique constraint \"products_pkey\"",
     "relation \"prodcts\" does not exist"}
ErrorInputs ==
    {<<>>} \cup {<<e>> : e \in SeqsUpTo(ErrorFragmentInputs, MaxFragments)}

\* a database call of the manager fails and reports through log_error
LogError ==
    /\ AtMenu
    /\ \E message \in LogMessageInputs, error \in ErrorInputs :
        /\ call' = [op |-> "log_error", message |-> message, error |-> error]
        /\ result' = log_error(message, error)
    /\ executed' = <<>>
    /\ UNCHANGED <<VALID_IDENTIFIERS, session, pinger>>

LogNext ==
    \/ ReturnToMenu
    \/ LogError

LogSpec == Init /\ [][LogNext]_vars

(***************************************************************************)
(* Reading a statement back: the parts of a Composed, found from its       *)
(* tokens alone.                                                           *)
(***************************************************************************)
\* the statements the last call returned or handed to execute_query
Produced ==
    (IF result.kind = "built" /\ result.built.ok THEN {result.built.query} ELSE {})
    \cup {executed[k].query : k \in 1..Len(executed)}

IsBuilderCall == call.op \in {"build_select_query", "build_update_query", "build_insert_query"}

HasToken(q, tok) == \E k \in 1..Len(q) : q[k] = tok
IndexOf(q, tok) == CHOOSE k \in 1..Len(q) : q[k] = tok /\ \A m \in 1..(k - 1) : q[m] # tok
After(q, tok) == IF HasToken(q, tok) THEN SubSeq(q, IndexOf(q, tok) + 1, Len(q)) ELSE <<>>
Before(q, tok) == IF HasToken(q, tok) THEN SubSeq(q, 1, IndexOf(q, tok) - 1) ELSE q

RECURSIVE SplitOn(_, _)
\* the runs of q between the occurrences of the token sep
SplitOn(q, sep) ==
    IF ~HasToken(q, sep) THEN <<q>>
    ELSE <<Before(q, sep)>> \o SplitOn(After(q, sep), sep)

CountPlaceholders(q) == Cardinality({k \in 1..Len(q) : q[k] = Placeholder})
IdentifiersIn(q) == {q[k].s : k \in {j \in 1..Len(q) : q[j].k = "Identifier"}}

\* the conditions of the WHERE clause, in text order
WhereConditions(q) ==
    IF HasToken(q, SQL(" WHERE ")) THEN SplitOn(After(q, SQL(" WHERE ")), SQL(" AND "))
    ELSE <<>>

\* the statement in the notation of the documentation: identifiers bare,
\* a placeholder written ?
RECURSIVE Notation(_)
Notation(q) ==
    IF q = <<>> THEN ""
    ELSE (CASE Head(q).k = "SQL" -> Head(q).s
            [] Head(q).k = "Identifier" -> Head(q).s
            [] OTHER -> "?") \o Notation(Tail(q))

\* the conditions and the columns a builder call names
CallConditions ==
    CASE call.op = "build_select_query" ->
             (IF call.filters = <<>> THEN <<>> ELSE call.filters[1])
      [] call.op = "build_update_query" -> call.where_clauses
      [] OTHER -> <<>>

CallColumns ==
    {CondCol(CallConditions[k]) : k \in 1..Len(CallConditions)}
    \cup (IF call.op = "build_update_query" THEN Range(Keys(call.set_clauses)) ELSE {})
    \cup (IF call.op = "build_insert_query" THEN Range(call.columns) ELSE {})

Registered(table, column) ==
    table \in DOMAIN Registry /\ column \in Range(Registry[table])

(***************************************************************************)
(* C1: every builder fails, returning no statement, when the table or any  *)
(* column it is given is absent from the registry; no identifier absent    *)
(* from the registry appears in a returned statement.                      *)
(***************************************************************************)
C1_UnregisteredIdentifierRejected ==
    IsBuilderCall =>
        /\ (call.table \notin DOMAIN Registry
            \/ \E c \in CallColumns : ~Registered(call.table, c))
           => (~result.built.ok /\ result.built.query = <<>>)
        /\ \A q \in Produced :
               IdentifiersIn(q) \subseteq {call.table} \cup Range(Registry[call.table])

(***************************************************************************)
(* C2: validate_identifier(T, C) is false for every column value C not in  *)
(* the registry entry of T (also when T is unknown), and true for every    *)
(* registered pair.                                                        *)
(***************************************************************************)
C2_ValidateIdentifierExact ==
    (call.op = "validate_identifier" /\ call.column # NoColumn) =>
        (result.value <=> Registered(call.table, call.column[1]))

(***************************************************************************)
(* C3: a condition whose operator is outside {=, !=, >, <, >=, <=, LIKE,   *)
(* IN} is rejected by build_select_query and build_update_query, so no     *)
(* such operator appears in a returned statement.                          *)
(***************************************************************************)
AllowedOperators == {"=", "!=", ">", "<", ">=", "<=", "LIKE", "IN"}

C3_OperatorOutsideSetRejected ==
    (call.op \in {"build_select_query", "build_update_query"} /\ result.built.ok) =>
        \A k \in 1..Len(CallConditions) :
            upper(CondOp(CallConditions[k])) \in AllowedOperators

(***************************************************************************)
(* C4: an IN condition with an empty value list is rejected; no statement  *)
(* with an IN clause of zero placeholders is produced or executed.         *)
(***************************************************************************)
HasEmptyIn(q) ==
    \E k \in 1..(Len(q) - 1) : q[k] = SQL(" IN (") /\ q[k + 1] = SQL(")")

C4_EmptyInRejected == \A q \in Produced : ~HasEmptyIn(q)

(***************************************************************************)
(* C5: an UPDATE whose SET clause names the table's primary-key column is  *)
(* rejected and yields no statement, by build_update_query and by the      *)
(* update operations alike.                                                *)
(***************************************************************************)
PrimaryKey ==
    [categories |-> "category_id", suppliers |-> "supplier_id",
     products |-> "product_id", inventory_transactions |-> "transaction_id"]

\* the columns the SET clause of an UPDATE statement assigns
AssignedColumns(q) ==
    IdentifiersIn(Before(After(q, SQL(" SET ")), SQL(" WHERE ")))

C5_PrimaryKeyNeverAssigned ==
    \A q \in Produced :
        (HasToken(q, SQL("UPDATE ")) /\ call.table \in DOMAIN PrimaryKey)
            => PrimaryKey[call.table] \notin AssignedColumns(q)

(***************************************************************************)
(* The text the documentation gives for a statement, written as a string.  *)
(***************************************************************************)
RECURSIVE JoinStr(_, _)
JoinStr(sep, strs) ==
    IF strs = <<>> THEN ""
    ELSE IF Len(strs) = 1 THEN strs[1]
    ELSE strs[1] \o sep \o JoinStr(sep, Tail(strs))

\* "?, ?, ..., ?" with n question marks
QMarks(n) == JoinStr(", ", [k \in 1..n |-> "?"])

ConditionText(c) ==
    IF upper(CondOp(c)) = "IN"
    THEN CondCol(c) \o " IN (" \o QMarks(PyLen(CondVal(c))) \o ")"
    ELSE CondCol(c) \o " " \o CondOp(c) \o " ?"

SelectText(table, filters) ==
    IF filters = <<>> THEN "SELECT * FROM " \o table
    ELSE "SELECT * FROM " \o table \o " WHERE "
         \o JoinStr(" AND ", [k \in 1..Len(filters) |-> ConditionText(filters[k])])

InsertText(table, columns) ==
    "INSERT INTO " \o table \o " (" \o JoinStr(", ", columns) \o ") VALUES ("
    \o QMarks(Len(columns)) \o ") RETURNING *"

\* the conditions an operation was asked to apply, and the statement and
\* parameters it submitted
Completed == result.kind = "op" /\ result.status = "completed" /\ Len(executed) = 1

OpConditions ==
    CASE call.op = "filter_multiple_values" -> call.filters
      [] call.op = "update_multiple_records" ->
             <<<<call.filter_column, "IN", call.filter_values>>>>
      [] OTHER -> <<>>

RECURSIVE SumPlaceholders(_, _)
\* the placeholders of the first n of the parts
SumPlaceholders(parts, n) ==
    IF n = 0 THEN 0 ELSE SumPlaceholders(parts, n - 1) + CountPlaceholders(parts[n])

AsGiven(values) == values

\* every IN condition over a list of N values has N placeholders, and the
\* parameters at its position are F of those values, in order
InConditionsBound(F(_)) ==
    LET q == executed[1].query
        parts == WhereConditions(q)
        first == CountPlaceholders(Before(q, SQL(" WHERE ")))
    IN  /\ Len(parts) = Len(OpConditions)
        /\ \A k \in 1..Len(OpConditions) :
               LET c == OpConditions[k]
                   N == Len(CondVal(c).items)
                   off == first + SumPlaceholders(parts, k - 1)
               IN  (upper(CondOp(c)) = "IN" /\ CondVal(c).t = "list") =>
                       /\ CountPlaceholders(parts[k]) = N
                       /\ SubSeq(executed[1].params, off + 1, off + N) = F(CondVal(c).items)

\* the same count for a statement a builder returned
InConditionsCounted ==
    LET parts == WhereConditions(result.built.query)
    IN  /\ Len(CallConditions) > 0 => Len(parts) = Len(CallConditions)
        /\ \A k \in 1..Len(CallConditions) :
               LET c == CallConditions[k]
               IN  (upper(CondOp(c)) = "IN" /\ CondVal(c).t = "list") =>
                       CountPlaceholders(parts[k]) = Len(CondVal(c).items)

IsFilterOrMultiUpdate == call.op \in {"filter_multiple_values", "update_multiple_records"}

(***************************************************************************)
(* C6 as stated: for an IN condition over N values, the SELECT/UPDATE text *)
(* has exactly N placeholders for the condition and the bound parameters   *)
(* hold those N values, in their order, at the condition's position.       *)
(***************************************************************************)
C6_InValuesBoundAsGiven ==
    (IsFilterOrMultiUpdate /\ Completed) => InConditionsBound(AsGiven)

(***************************************************************************)
(* C6 amended: for an IN condition over N values, the SELECT/UPDATE text   *)
(* has exactly N placeholders for the condition and the bound parameters   *)
(* hold, at the condition's position and in order, the N values each       *)
(* passed through sanitize_value.                                          *)
(***************************************************************************)
C6_InValuesBoundSanitized ==
    /\ (IsFilterOrMultiUpdate /\ Completed) => InConditionsBound(SanitizeAll)
    /\ (call.op \in {"build_select_query", "build_update_query"} /\ result.built.ok)
           => InConditionsCounted

\* a second condition, IN over two values one of which sanitizing changes
C6_Witness ==
    /\ call.op = "filter_multiple_values" /\ Completed
    /\ Len(call.filters) = 2
    /\ call.filters[2][2] = "IN"
    /\ call.filters[2][3] = ListV(<<IntV(1), StrV(<<";", "b">>)>>)
    /\ executed[1].params = <<IntV(10), IntV(1), StrV(<<"b">>)>>

(***************************************************************************)
(* C7: a SELECT for a valid table is SELECT * FROM <table> with no WHERE   *)
(* clause when the filter list is absent or empty; otherwise the           *)
(* conditions follow WHERE in the given order, joined by AND only, a       *)
(* non-IN condition written <col> <op> placeholder, and the bound          *)
(* parameters follow the placeholders left to right.  The documented       *)
(* conditions on products give                                             *)
(*   SELECT * FROM products WHERE price > ? AND category_id IN (?, ?, ?)   *)
(* with parameters [10, 1, 2, 3].                                          *)
(***************************************************************************)
C7_SelectShape ==
    /\ (call.op = "build_select_query" /\ call.table \in DOMAIN Registry) =>
           LET fs == IF call.filters = <<>> THEN <<>> ELSE call.filters[1]
           IN  /\ fs = <<>> => result.built.ok
               /\ result.built.ok =>
                      /\ Notation(result.built.query) = SelectText(call.table, fs)
                      /\ (fs = <<>>) <=> ~HasToken(result.built.query, SQL(" WHERE "))
    /\ (call.op = "filter_multiple_values" /\ Completed) =>
           /\ Notation(executed[1].query) = SelectText(call.table, call.filters)
           /\ Len(executed[1].params) = CountPlaceholders(executed[1].query)
           /\ executed[1].params
                  = Flatten([k \in 1..Len(call.filters) |->
                                 SanitizeAll(IF upper(CondOp(call.filters[k])) = "IN"
                                             THEN PyIter(CondVal(call.filters[k]))
                                             ELSE <<CondVal(call.filters[k])>>)])
    /\ (call.op = "filter_multiple_values" /\ call.table = "products"
        /\ call.filters = ExampleFilters) =>
           /\ Completed
           /\ Notation(executed[1].query)
                  = "SELECT * FROM products WHERE price > ? AND category_id IN (?, ?, ?)"
           /\ executed[1].text
                  = "SELECT * FROM \"products\" WHERE \"price\" > %s AND \"category_id\" IN (%s, %s, %s)"
           /\ executed[1].params = <<IntV(10), IntV(1), IntV(2), IntV(3)>>

C7_Witness ==
    /\ call.op = "filter_multiple_values" /\ call.table = "products"
    /\ call.filters = ExampleFilters
    /\ Completed
    /\ executed[1].params = <<IntV(10), IntV(1), IntV(2), IntV(3)>>

(***************************************************************************)
(* C8 as stated: an executed UPDATE has its SET assignments before its     *)
(* WHERE conditions, and its parameters are the SET values in SET order    *)
(* followed by the WHERE values in WHERE order.                            *)
(***************************************************************************)
IsUpdateOp == call.op \in {"update_single_record", "update_multiple_records"}

SetValues ==
    IF call.op = "update_single_record" THEN Values(call.updates) ELSE <<call.new_value>>

WhereValues ==
    IF call.op = "update_single_record" THEN <<call.record_id>>
    ELSE PyIter(call.filter_values)

UpdateBound(F(_)) ==
    LET q == executed[1].query
        set_section == Before(After(q, SQL(" SET ")), SQL(" WHERE "))
        where_section == After(q, SQL(" WHERE "))
    IN  /\ HasToken(q, SQL(" SET ")) /\ HasToken(q, SQL(" WHERE "))
        /\ IndexOf(q, SQL(" SET ")) < IndexOf(q, SQL(" WHERE "))
        /\ CountPlaceholders(Before(q, SQL(" SET "))) = 0
        /\ CountPlaceholders(set_section) = Len(SetValues)
        /\ CountPlaceholders(where_section) = Len(WhereValues)
        /\ ~HasToken(where_section, SQL(" = "))
        /\ executed[1].params = F(SetValues) \o F(WhereValues)

C8_UpdateParamsAsGiven == (IsUpdateOp /\ Completed) => UpdateBound(AsGiven)

(***************************************************************************)
(* C8 amended: an executed UPDATE has its SET assignments before its WHERE *)
(* conditions, and its parameters are the SET values in SET order followed *)
(* by the WHERE values in WHERE order, each value passed through           *)
(* sanitize_value, so the i-th parameter binds the i-th placeholder.       *)
(***************************************************************************)
C8_UpdateParamsSanitized == (IsUpdateOp /\ Completed) => UpdateBound(SanitizeAll)

\* two assignments, one a string that sanitizing changes, then the record id
C8_Witness ==
    /\ call.op = "update_single_record" /\ call.table = "products" /\ Completed
    /\ call.updates = <<<<"description", StrV(<<";", "b">>)>>, <<"price", IntV(10)>>>>
    /\ call.record_id = IntV(7)
    /\ executed[1].params = <<StrV(<<"b">>), IntV(10), IntV(7)>>

(***************************************************************************)
(* C9 as stated: an INSERT for a valid table with k valid columns and one  *)
(* row of k values is INSERT INTO <table> (<columns in order>) VALUES      *)
(* (<k placeholders>) RETURNING *, with the k values as parameters in      *)
(* column order.                                                           *)
(***************************************************************************)
InsertBound(F(_)) ==
    /\ Notation(executed[1].query) = InsertText(call.table, Keys(call.data))
    /\ CountPlaceholders(executed[1].query) = Len(call.data)
    /\ executed[1].params = F(Values(call.data))

C9_InsertParamsAsGiven ==
    (call.op = "insert_single_record" /\ Completed) => InsertBound(AsGiven)

(***************************************************************************)
(* C9 amended: an INSERT for a valid table with k valid columns and one    *)
(* row of k values is INSERT INTO <table> (<columns in order>) VALUES      *)
(* (<k placeholders>) RETURNING *, with the k values, each passed through  *)
(* sanitize_value, as parameters in column order; categories with          *)
(* [category_name, description] gives INSERT INTO categories               *)
(* (category_name, description) VALUES (?, ?) RETURNING *.                 *)
(***************************************************************************)
C9_InsertParamsSanitized ==
    /\ (call.op = "insert_single_record" /\ Completed) => InsertBound(SanitizeAll)
    /\ (call.op = "insert_single_record" /\ call.table \in DOMAIN Registry
        /\ \A k \in 1..Len(call.data) : Registered(call.table, call.data[k][1]))
           => Completed
    /\ (call.op = "build_insert_query" /\ result.built.ok
        /\ Len(call.values_list) = 1 /\ Len(call.values_list[1]) = Len(call.columns))
           => Notation(result.built.query) = InsertText(call.table, call.columns)
    /\ (call.op = "insert_single_record" /\ call.table = "categories"
        /\ call.data = ExampleInsertData) =>
           /\ Completed
           /\ Notation(executed[1].query)
                  = "INSERT INTO categories (category_name, description) VALUES (?, ?) RETURNING *"
           /\ executed[1].text
                  = "INSERT INTO \"categories\" (\"category_name\", \"description\") VALUES (%s, %s) RETURNING *"
           /\ executed[1].params = Values(ExampleInsertData)

C9_Witness ==
    /\ call.op = "insert_single_record" /\ call.table = "categories" /\ Completed
    /\ call.data = <<<<"description", StrV(<<";", "b">>)>>,
                     <<"category_name", StrV(<<"a", "'">>)>>>>
    /\ executed[1].params = <<StrV(<<"b">>), StrV(<<"a">>)>>

(***************************************************************************)
(* C10: a multi-row insert in which some row's key set differs from the    *)
(* first row's is rejected before any statement is built or executed;      *)
(* rows are never padded or truncated: an accepted insert binds, for every *)
(* row, exactly one value per column.                                      *)
(***************************************************************************)
KeySet(record) == {record[k][1] : k \in 1..Len(record)}

\* the placeholder groups of the VALUES clause, one per row
RowGroups(q) == Tail(SplitOn(After(q, SQL(") VALUES ")), SQL("(")))

C10_MismatchedRowsRejected ==
    (call.op = "insert_multiple_records" /\ call.records # <<>>) =>
        /\ (\E k \in 1..Len(call.records) : KeySet(call.records[k]) # KeySet(call.records[1]))
               => (result.status = "rejected" /\ executed = <<>>)
        /\ executed # <<>> =>
               LET q == executed[1].query
                   n == Len(call.records[1])
               IN  /\ Len(RowGroups(q)) = Len(call.records)
                   /\ \A g \in 1..Len(RowGroups(q)) : CountPlaceholders(RowGroups(q)[g]) = n
                   /\ \A k \in 1..Len(call.records) : Len(call.records[k]) = n
                   /\ Len(executed[1].params) = n * Len(call.records)

\* the second row has as many keys as the first, but not the same ones
C10_Witness ==
    /\ call.op = "insert_multiple_records" /\ call.table = "categories"
    /\ Len(call.records) = 2
    /\ Len(call.records[1]) = 1 /\ Len(call.records[2]) = 1
    /\ KeySet(call.records[1]) = {"category_name"}
    /\ KeySet(call.records[2]) = {"description"}
    /\ result.status = "rejected"
    /\ executed = <<>>

(***************************************************************************)
(* The sanitizer on its own.                                               *)
(***************************************************************************)
RECURSIVE Stripped(_)
\* the characters of cs that are none of ; ' " \, in their order
Stripped(cs) ==
    IF cs = <<>> THEN <<>>
    ELSE IF Head(cs) \in {";", "'", "\"", "\\"} THEN Stripped(Tail(cs))
    ELSE <<Head(cs)>> \o Stripped(Tail(cs))

OBrienDropStripped == StrV(<<"O", "B", "r", "i", "e", "n", "D", "R", "O", "P">>)

\* C11: sanitize_value applied to a string returns the string with every
\* ; ' " and backslash removed and every other character kept in order
\* (O'Brien;DROP becomes OBrienDROP); any value that is no string (the
\* integer 42, a list) is returned unchanged.
C11_SanitizeValue ==
    call.op = "sanitize_value" =>
        /\ call.value.t = "str" => result.value = StrV(Stripped(call.value.s))
        /\ call.value.t # "str" => result.value = call.value
        /\ call.value = OBrienDrop => result.value = OBrienDropStripped
        /\ call.value = IntV(42) => result.value = IntV(42)

\* the sanitizer has removed a backslash from between two letters
C11_Witness ==
    /\ call.op = "sanitize_value"
    /\ call.value = StrV(<<"a", "\\", "b">>)
    /\ result.value = StrV(<<"a", "b">>)

(***************************************************************************)
(* What reaches the executor as a bound parameter.                         *)
(***************************************************************************)
IsOperationCall == result.kind = "op"

\* no string in v, v itself or an element of the list v, holds ; ' " or \
Clean(v) ==
    CASE v.t = "str" -> \A k \in 1..Len(v.s) : v.s[k] \notin {";", "'", "\"", "\\"}
      [] v.t = "list" ->
            \A j \in 1..Len(v.items) :
                v.items[j].t = "str" =>
                    \A k \in 1..Len(v.items[j].s) :
                        v.items[j].s[k] \notin {";", "'", "\"", "\\"}
      [] OTHER -> TRUE

\* C12: for every InventoryOperations operation and every input, no string
\* reaching the query executor as a bound parameter, passed as a scalar or
\* contained in a value list, contains ; ' " or backslash.
C12_BoundParametersSanitized ==
    IsOperationCall =>
        \A k \in 1..Len(executed) :
            \A j \in 1..Len(executed[k].params) : Clean(executed[k].params[j])

(***************************************************************************)
(* What the executor hands back.                                           *)
(***************************************************************************)
\* the driver ran the one statement of the call without raising
ExecutedOk == Len(executed) = 1 /\ call.outcome = "ok"

\* C13: an insert_single_record call whose statement executes successfully
\* returns the full inserted row, generated identifier included.
C13_InsertReturnsRow ==
    (call.op = "insert_single_record" /\ IsOperationCall /\ ExecutedOk)
        => result.ret = "row"

IsSelect(q) == Head(q) = SQL("SELECT * FROM ")
HasReturning(q) == HasToken(q, SQL(" RETURNING *"))

\* C14: execute_query produces a sequence of row mappings for every
\* successfully executed SELECT and for every successfully executed
\* statement with a RETURNING clause, and a result that is no row sequence
\* only for statements that are neither.
C14_RowsForSelectAndReturning ==
    (call.op = "execute_query" /\ call.outcome = "ok") =>
        (result.ret = "rows" <=> (IsSelect(call.query) \/ HasReturning(call.query)))

(***************************************************************************)
(* Related-record insertion.                                               *)
(***************************************************************************)
IsRelatedCall == call.op = "insert_related_records"

\* the i-th entry names a registered table and only columns of it
EntryValid(i) ==
    /\ call.tables_data[i][1] \in DOMAIN Registry
    /\ \A k \in 1..Len(call.tables_data[i][2]) :
           call.tables_data[i][2][k][1] \in Range(Registry[call.tables_data[i][1]])

\* the insert of the i-th entry fails: refused, or raised by the driver
EntryFails(i) == ~EntryValid(i) \/ call.outcomes[i] = "error"

\* C15: in insert_related_records, when the insert for some table fails the
\* helper stops immediately: no later insert is attempted, and it returns
\* the list of identifiers captured from the successful earlier inserts.
C15_StopsAtFirstFailure ==
    IsRelatedCall =>
        \A f \in 1..Len(call.tables_data) :
            (EntryFails(f) /\ \A k \in 1..(f - 1) : ~EntryFails(k)) =>
                /\ Len(executed) <= f
                /\ result.ret = "list"
                /\ Len(result.inserted_ids) = f - 1

\* position of key in the dict d
KeyIndex(d, key) == CHOOSE k \in 1..Len(d) : d[k][1] = key

\* entries b - 1 and b are a registry table A, inserted successfully after
\* successful inserts only, and a table B with the column <A_singular>_id
Consecutive(b) ==
    /\ \A k \in 1..(b - 1) : ~EntryFails(k)
    /\ EntryValid(b)
    /\ call.tables_data[b - 1][3] = PrimaryKey[call.tables_data[b - 1][1]]
    /\ HasKey(call.tables_data[b][2], PrimaryKey[call.tables_data[b - 1][1]])

\* C16: in insert_related_records, for consecutive tables A then B the
\* identifier captured from A's returned row is used as the value of B's
\* foreign-key column <A_singular>_id (product_id after products,
\* category_id after categories), for every registry table A, and the
\* insert into B is issued after the insert into A.
C16_ForeignKeyFromPreviousRow ==
    IsRelatedCall =>
        \A b \in 2..Len(call.tables_data) :
            Consecutive(b) =>
                /\ Len(executed) >= b
                /\ executed[b - 1].query[2] = Identifier(call.tables_data[b - 1][1])
                /\ executed[b].query[2] = Identifier(call.tables_data[b][1])
                /\ executed[b].params[KeyIndex(call.tables_data[b][2],
                                               PrimaryKey[call.tables_data[b - 1][1]])]
                       = GeneratedId(b - 1)

\* C17: insert_related_records never attempts a rollback: on every path it
\* issues only INSERT statements, none that removes or alters an earlier
\* row, so a row committed by an earlier insert stays committed.
C17_OnlyInserts ==
    IsRelatedCall =>
        \A k \in 1..Len(executed) :
            /\ Head(executed[k].query) = SQL("INSERT INTO ")
            /\ \A j \in 2..Len(executed[k].query) :
                   executed[k].query[j].k = "SQL" =>
                       executed[k].query[j].s \in {" (", ", ", ") VALUES ", "(", ")",
                                                   " RETURNING *"}

\* a first insert was committed and the insert after it failed
C17_Witness ==
    /\ IsRelatedCall
    /\ call.outcomes = <<"ok", "error">>
    /\ Len(executed) = 2
    /\ executed[1].query[2] = Identifier("products")
    /\ executed[2].query[2] = Identifier("categories")

(***************************************************************************)
(* Failures of the executor.                                               *)
(***************************************************************************)
SingleStatementOps ==
    {"display_table", "filter_single_value", "filter_multiple_values",
     "update_single_record", "update_multiple_records",
     "insert_single_record", "insert_multiple_records"}

\* the driver raised on a statement the operation call submitted
StatementFailed ==
    /\ IsOperationCall
    /\ \/ call.op \in SingleStatementOps /\ Len(executed) = 1 /\ call.outcome = "error"
       \/ IsRelatedCall /\ \E k \in 1..Len(call.outcomes) :
                               EntryValid(k) /\ call.outcomes[k] = "error"
                               /\ \E j \in 1..Len(executed) :
                                      executed[j].query[2] = Identifier(call.tables_data[k][1])

ReportsSuccess ==
    result.msg \in {"Successfully updated", "Successfully inserted",
                    "Successfully inserted related records"}

\* what execute_query returns for a successfully executed write
SuccessfulWriteResults ==
    {execute_query(st[1], st[2], "ok") : st \in {x \in StatementInputs : ~IsSelect(x[1])}}

\* C18: when the executor fails the failure is reported to the immediate
\* caller: what execute_query returns for a failed statement differs from
\* what it returns for a successful write, and no InventoryOperations
\* operation (update_single_record, update_multiple_records,
\* insert_single_record, insert_multiple_records, insert_related_records)
\* reports success for a statement whose execution failed.
C18_FailureReported ==
    /\ (call.op = "execute_query" /\ call.outcome = "error")
           => result.ret \notin SuccessfulWriteResults
    /\ StatementFailed => ~ReportsSuccess

\* the entries of a related-record insertion that get as far as a statement
ValidEntries == {k \in 1..Len(call.tables_data) : EntryValid(k)}

\* C19: a failed execution is surfaced once and never retried: each
\* operation call submits each statement it builds to execute_query at most
\* once, and execute_query invokes the driver at most once per call.
C19_SubmittedAtMostOnce ==
    /\ (IsOperationCall /\ call.op \in SingleStatementOps) => Len(executed) <= 1
    /\ IsRelatedCall =>
           /\ Len(executed) <= Cardinality(ValidEntries)
           /\ \A k \in ValidEntries :
                  Cardinality({j \in 1..Len(executed) :
                                  executed[j].query[2] = Identifier(call.tables_data[k][1])})
                      <= Cardinality({m \in ValidEntries :
                                         call.tables_data[m][1] = call.tables_data[k][1]})
    /\ call.op = "execute_query" => Len(executed) = 1

\* an update whose statement the driver refused: submitted once, not again
C19_Witness ==
    /\ call.op = "update_single_record"
    /\ result.status = "completed"
    /\ call.outcome = "error"
    /\ Len(executed) = 1

\* C20: VALID_IDENTIFIERS is never mutated at runtime: after any sequence of
\* validator, builder, sanitizer and InventoryOperations calls the mapping
\* equals its initial value.
C20_RegistryUnchanged == VALID_IDENTIFIERS = Registry

\* an operation has refused an unregistered column and the registry stands
C20_Witness ==
    /\ call.op = "insert_single_record"
    /\ result.status = "rejected"
    /\ call.table = "categories"
    /\ HasKey(call.data, "price")
    /\ VALID_IDENTIFIERS = Registry

(***************************************************************************)
(* The menus' numeric coercion.                                            *)
(***************************************************************************)
IsMenuCall == call.op \in {"filter_single_value_menu", "filter_multiple_values_menu"}

\* the n-th entry of a list chosen by the text of its number, <<>> when the
\* text is no number or no entry has it
Chosen(choice, options) ==
    IF py_int(choice).ok /\ InRange(py_int(choice).value.i, options)
    THEN <<options[py_int(choice).value.i]>>
    ELSE <<>>

\* the table and the columns a menu call got to
MenuTable == Chosen(call.table_choice, get_table_names(call.names))
MenuColumns == IF MenuTable = <<>> THEN <<>> ELSE get_table_columns(MenuTable[1], call.cols)

NumericName(column_name) ==
    column_name \in {"category_id", "supplier_id", "product_id", "transaction_id",
                     "quantity", "price", "cost"}

\* the text converts: int when it has no point, float otherwise
Convertible(text) ==
    IF \E k \in 1..Len(text) : text[k] = "." THEN py_float(text).ok ELSE py_int(text).ok

\* the value the operation must get for a text entered for a column
PassedAsEntered(column_name, text, passed) ==
    /\ (NumericName(column_name) /\ ~Convertible(text)) => passed = StrV(text)
    /\ ~NumericName(column_name) => passed = StrV(text)
    /\ (NumericName(column_name) /\ Convertible(text)) => passed.t \in {"int", "float"}

\* the rounds of the filter loop that name a column
NamedRounds == SelectSeq(call.entries, LAMBDA e : Chosen(e[1], MenuColumns) # <<>>)

C23_RowValuesFollowColumns ==
    (call.op = "insert_multiple_records" /\ Completed) =>
        LET columns == Keys(call.records[1])
            n == Len(columns)
        IN  \A r \in 1..Len(call.records) :
                \A j \in 1..n :
                    executed[1].params[(r - 1) * n + j]
                        = sanitize_value(DictGet(call.records[r], columns[j]))

(***************************************************************************)
(* The row an update addresses.                                            *)
(***************************************************************************)
\* a call with a non-empty set of updates, all to columns of the table
\* other than its primary key
ValidUpdates ==
    /\ call.table \in DOMAIN Registry
    /\ call.updates # <<>>
    /\ \A k \in 1..Len(call.updates) :
           /\ call.updates[k][1] \in Range(Registry[call.table])
           /\ call.updates[k][1] # PrimaryKey[call.table]

\* C24: for every table in the registry, update_single_record called with
\* a record id and a non-empty set of valid non-primary-key column updates
\* builds and executes an UPDATE whose WHERE clause compares that table's
\* primary-key column with the record id; the id column derived from the
\* table name is always a valid column of the table.
C24_UpdateAddressesPrimaryKey ==
    (call.op = "update_single_record" /\ ValidUpdates) =>
        /\ Completed
        /\ WhereConditions(executed[1].query)
               = <<<<Identifier(PrimaryKey[call.table]), SQL(" "), SQL("="), SQL(" "),
                     Placeholder>>>>
        /\ executed[1].params[Len(executed[1].params)] = sanitize_value(call.record_id)

(***************************************************************************)
(* Empty clauses of an UPDATE.                                             *)
(***************************************************************************)
IsUpdate(q) == Head(q) = SQL("UPDATE ")

\* the tokens of the SET clause and of the WHERE clause
SetClause(q) == Before(After(q, SQL(" SET ")), SQL(" WHERE "))
WhereClause(q) == After(q, SQL(" WHERE "))

\* C25: build_update_query never returns an UPDATE statement with an empty
\* SET clause or an empty WHERE clause: for an empty set_clauses or
\* where_clauses it fails instead of returning text, so no UPDATE without
\* an assignment or without a row-restricting condition reaches the
\* executor.
C25_NoEmptyUpdateClause ==
    \A q \in Produced :
        IsUpdate(q) => (SetClause(q) # <<>> /\ WhereClause(q) # <<>>)

(***************************************************************************)
(* The session across a switch of user.                                    *)
(***************************************************************************)
\* C26: after switch_user_menu returns, whether the reconnect succeeded or
\* failed, the session is consistent: current_user names the user that
\* owns the DatabaseManager's connection and that connection is open, so a
\* failed switch leaves the previous user's session usable for the menu
\* operations that follow.
C26_SessionConsistent ==
    /\ session.open
    /\ session.current_user = session.owner


(***************************************************************************)
(* Task1: the pinger and the connection test                               *)
(***************************************************************************)
LogLevels == {"OK", "WARNING", "ERROR"}

\* C27: the pinger's main loop never stops on its own: for every value of
\* the environment (DB_PORT, PING_INTERVAL, ...) and every outcome of the
\* connection attempt and version query, check_database returns normally
\* having logged exactly one OK, WARNING or ERROR message, and the sleep
\* that follows leads to another check.
C27_PingerKeepsChecking ==
    /\ pinger.pc # "crashed"
    /\ pinger.pc = "sleep" =>
          Len(pinger.logged) = 1 /\ pinger.logged[1] \in LogLevels

\* C28: every connection check_database and the connection tests open is
\* closed when they return, on the success path and on every failure path;
\* no open connection accumulates across repeated pings.
C28_NoConnectionLeftOpen ==
    /\ pinger.open = 0
    /\ result.kind \in {"main", "script"} => result.tested.open = 0

WhitelistedKeys ==
    {"host", "port", "dbname", "sslmode", "connect_timeout", "client_encoding",
     "user", "password"}
IsAppRun == call.op \in {"main", "script"}

\* C29: the connection parameters contain only whitelisted keys, user and
\* password are the entered credentials whatever the config holds, and a
\* config without dbname ends the program instead of returning parameters.
C29_OnlyWhitelistedParameters ==
    IsAppRun =>
        /\ result.created.kind = "params" =>
              LET conn_params == result.created.params
              IN  /\ \A k \in 1..Len(conn_params) : conn_params[k][1] \in WhitelistedKeys
                  /\ \A j, k \in 1..Len(conn_params) :
                        j # k => conn_params[j][1] # conn_params[k][1]
                  /\ HasKey(conn_params, "user")
                  /\ HasKey(conn_params, "password")
                  /\ DictGet(conn_params, "user") = call.username
                  /\ DictGet(conn_params, "password") = call.password
        /\ ~HasKey(call.config, "dbname") => result.created.kind # "params"

\* create_connection returned parameters for a config that also holds a
\* user entry and a key outside the whitelist
C29_Witness ==
    /\ call.op = "main"
    /\ HasKey(call.config, "user")
    /\ HasKey(call.config, "options")
    /\ HasKey(call.config, "dbname")
    /\ result.created.kind = "params"
    /\ Len(result.created.params) = 8


(***************************************************************************)
(* DatabaseManager.log_error                                               *)
(***************************************************************************)
FriendlyMessages ==
    {"Connection failed: Invalid username or password",
     "Connection failed: Cannot connect to database server",
     "Operation failed: Record with this value already exists"}
IsLogCall == call.op = "log_error" /\ call.error # <<>>

\* C30: for every message and every exception, the line log_error emits
\* through the logger is one of the fixed friendly messages or
\* 'Operation failed: <message>' and holds no part of the exception text,
\* which goes to stderr only, behind 'Technical details: '.
C30_LogLineHidesDriverText ==
    IsLogCall =>
        /\ \/ \E m \in FriendlyMessages : result.line = <<ErrorMark \o m>>
           \/ result.line = <<ErrorMark \o "Operation failed: " \o call.message>>
        /\ \A k \in 1..Len(call.error[1]) : ~Contains(result.line, call.error[1][k])
        /\ result.stderr = <<"Technical details: ">> \o call.error[1] \o <<"\n">>

\* a failing query whose exception text matches none of the three patterns
C30_Witness ==
    /\ IsLogCall
    /\ call.message = "Query execution failed"
    /\ Contains(call.error[1], "relation \"prodcts\" does not exist")
    /\ result.line = <<"ERROR: Operation failed: Query execution failed">>
    /\ Contains(result.stderr, "relation \"prodcts\" does not exist")

====
